---- MODULE Spec2Model ----
(***************************************************************************)
(* Signaling server of tuturu: PIN rooms (server/rooms.ts) and the         *)
(* WebSocket message handler (server/websocket.ts).                        *)
(*                                                                         *)
(* A connection is a ServerWebSocket with ws.data = {id, pin}.  Strings    *)
(* that the code inspects character by character (the PIN) are sequences   *)
(* of one-character strings.  Every callback (open, message, close) is one *)
(* action: JavaScript runs each callback to completion.  ws.close() hands  *)
(* the connection to its close callback before any other callback runs.   *)
(* The model is finite for finite inputs and needs no numeric bound.       *)
(***************************************************************************)
EXTENDS Integers, Sequences, FiniteSets, TLC

\* ------------------------------------------------------------------ inputs
\* Connection identifiers (generateClientId: unique per connection).
Conns == {"c1", "c2", "c3"}

Digits == {"0", "1", "2", "3", "4", "5", "6", "7", "8", "9"}

PinA == <<"4", "8", "2", "9", "1", "3">>
PinB == <<"0", "0", "0", "0", "0", "7">>
\* The empty string is the initial ws.data.pin, and a falsy message.pin.
NoPin == << >>

\* Codes a join-pin message may carry.
JoinPins ==
    { PinA, PinB, NoPin,
      <<"1", "2", "a", "4", "5">>,
      <<"1", "2", "3", "4", "5">>,
      <<"1", "2", "3", "4", "5", "6", "7">>,
      <<"1", "2", "3", "4", "5", "x">> }

\* Opaque negotiation payloads.
Payloads == {"sdp1", "sdp2"}
RelayTypes == {"offer", "answer", "ice-candidate"}

\* Inbound frames that are not a message of a known type.
MalformedKinds == {"unparseable", "null", "notype", "unknowntype"}

NoPeer == "none"

\* config.turnSecret is not set.
NoSecret == "unset"

\* A connection whose id the run does not generate.
NoId == << >>

VARIABLES
    rooms,      \* Map<PIN, Room>: function from the PINs that have a room
    pin,        \* pin[c]: ws.data.pin of connection c
    ws,         \* ws[c]: transport of c: "new", "open", "closing" (closed by
                \* the server, close callback due), "lost" (the transport
                \* failed: ws.send fails, frames received before and the
                \* close callback are still due), "closed"
    sent        \* what the callback that ran last did on the transports, in
                \* order: frames delivered and ws.close calls, as [to, frame]

\* The build with credential revocation (server/turn.ts with the Redis
\* blocklist, server/rooms.ts with room.turnCredentials) adds:
VARIABLES
    nowMs,            \* Date.now(), milliseconds
    turnSecret,       \* config.turnSecret (NoSecret: TURN not configured)
    redis,            \* redisClient: "null" (no connection at startup), "open"
    turnCredentials,  \* room.turnCredentials of every room: client id -> tracked
    revoked,          \* the revokeTurnCredentials calls of the callback that ran last
    written,          \* the SET ... EX writes to Redis those calls got stored
    iceServers,       \* data.iceServers of the join frame the callback that ran
                      \* last built (<< >>: it built none)
    clientIdCounter,  \* let clientIdCounter
    clientIds         \* ws.data.id of every connection, where the runs generate
                      \* it (NoId: not generated; the connection's name stands
                      \* for it)

tvars == <<nowMs, turnSecret, redis, turnCredentials, revoked, written, iceServers,
           clientIdCounter, clientIds>>

\* The browser clients (client.ts, client/state.ts, client/effects.ts,
\* client/websocket.ts) and the WebSocket connections between them and the
\* server add:
VARIABLES
    client,      \* client[k]: the page k: its AppState, errorTimeoutId and
                 \* the promises it awaits
    wire,        \* wire[c]: connection c as the page sees it: readyState, the
                 \* frames on their way up to the server and the events on
                 \* their way down to the page
    dispatched   \* the dispatch call that ran last: the page, the action and
                 \* the messages the page passed to ws.send

cvars == <<client, wire, dispatched>>

vars == <<rooms, pin, ws, sent, tvars, cvars>>

Frame(t, d) == [type |-> t, data |-> d]

\* ------------------------------------------------------------- websocket.ts
\* Mutant of validatePin: the pattern without its end anchor, /^\d{6}/.
validatePinUnanchored(p) == Len(p) >= 6 /\ \A i \in 1..6 : p[i] \in Digits

\* validatePin: /^\d{6}$/ (TRUE: passes, FALSE: throws InvalidPinError).
validatePin(p) == Len(p) = 6 /\ \A i \in 1..Len(p) : p[i] \in Digits

\* sendMessage: ws.send on a transport that is gone fails and sendMessage
\* throws; otherwise the frame is delivered.  log: the frames delivered so
\* far by the running callback; w: the transports.
sendMessage(log, w, to, fr) ==
    IF w[to] = "open"
    THEN [ok |-> TRUE, log |-> Append(log, [to |-> to, frame |-> fr])]
    ELSE [ok |-> FALSE, log |-> log]

\* ------------------------------------------------------------------ rooms.ts
HasRoom(rs, p) == p \in DOMAIN rs

\* rooms.set(pin, room)
SetRoom(rs, p, room) ==
    [q \in (DOMAIN rs) \cup {p} |-> IF q = p THEN room ELSE rs[q]]

\* rooms.delete(pin)
DeleteRoom(rs, p) == [q \in (DOMAIN rs) \ {p} |-> rs[q]]

\* Mutant of getOrCreateRoom: allocates a room on every call.
getOrCreateRoomAlways(rs, p) == SetRoom(rs, p, [pin |-> p, clients |-> << >>])

\* getOrCreateRoom: the room map after the call (the room returned is the
\* entry of p in it).  createdAt is never read and is left out.
getOrCreateRoom(rs, p) ==
    IF HasRoom(rs, p)
    THEN rs
    ELSE SetRoom(rs, p, [pin |-> p, clients |-> << >>])

\* Mutant of addClientToRoom: the capacity test off by one (> 2).
addClientToRoomOffByOne(room, c) ==
    IF Len(room.clients) > 2
    THEN [ok |-> FALSE, room |-> room]
    ELSE [ok |-> TRUE, room |-> [room EXCEPT !.clients = Append(@, c)]]

\* Mutant of addClientToRoom: a full room drops its oldest client.
addClientToRoomEvict(room, c) ==
    IF Len(room.clients) >= 2
    THEN [ok |-> FALSE, room |-> [room EXCEPT !.clients = Tail(@)]]
    ELSE [ok |-> TRUE, room |-> [room EXCEPT !.clients = Append(@, c)]]

\* addClientToRoom: the result and the room after the call.
addClientToRoom(room, c) ==
    IF Len(room.clients) >= 2
    THEN [ok |-> FALSE, room |-> room]
    ELSE [ok |-> TRUE, room |-> [room EXCEPT !.clients = Append(@, c)]]

\* Array.prototype.findIndex((x) => x.id === c); 0 stands for -1.
FindIndex(s, c) ==
    IF \E i \in 1..Len(s) : s[i] = c
    THEN CHOOSE i \in 1..Len(s) : s[i] = c /\ \A j \in 1..(i - 1) : s[j] # c
    ELSE 0

\* Array.prototype.splice(i, 1)
Splice(s, i) == SubSeq(s, 1, i - 1) \o SubSeq(s, i + 1, Len(s))

\* Mutant of getPeer: the id test dropped (the first client of the room).
getPeerAny(rs, c, p) ==
    IF ~HasRoom(rs, p) \/ Len(rs[p].clients) = 0
    THEN NoPeer
    ELSE rs[p].clients[1]

\* Mutant of getPeer: without a room of PIN p, the first client of any room.
getPeerAnyRoom(rs, c, p) ==
    IF HasRoom(rs, p)
    THEN getPeerAny(rs, c, p)
    ELSE IF \E q \in DOMAIN rs : rs[q].clients # << >> /\ rs[q].clients[1] # c
    THEN rs[CHOOSE q \in DOMAIN rs :
                rs[q].clients # << >> /\ rs[q].clients[1] # c].clients[1]
    ELSE NoPeer

\* getPeer: the first client of the room of PIN p whose id is not c.
getPeer(rs, c, p) ==
    IF ~HasRoom(rs, p)
    THEN NoPeer
    ELSE LET s == rs[p].clients
         IN  IF \E i \in 1..Len(s) : s[i] # c
             THEN s[CHOOSE i \in 1..Len(s) :
                        s[i] # c /\ \A j \in 1..(i - 1) : s[j] = c]
             ELSE NoPeer

\* Mutant of removeClientFromRoom: an emptied room stays in the map.
removeClientFromRoomNoCleanup(rs, log, w, c, p) ==
    IF ~HasRoom(rs, p)
    THEN [rooms |-> rs, log |-> log, threw |-> FALSE]
    ELSE LET room == rs[p]
             idx == FindIndex(room.clients, c)
             left == IF idx # 0 THEN Splice(room.clients, idx) ELSE room.clients
             rs1 == [rs EXCEPT ![p].clients = left]
         IN  IF Len(left) = 1
             THEN LET r == sendMessage(log, w, left[1], Frame("peer-left", "none"))
                  IN  [rooms |-> rs1, log |-> r.log, threw |-> ~r.ok]
             ELSE [rooms |-> rs1, log |-> log, threw |-> FALSE]

\* Mutant of removeClientFromRoom: the remaining client is not notified.
removeClientFromRoomSilent(rs, log, w, c, p) ==
    IF ~HasRoom(rs, p)
    THEN [rooms |-> rs, log |-> log, threw |-> FALSE]
    ELSE LET room == rs[p]
             idx == FindIndex(room.clients, c)
             left == IF idx # 0 THEN Splice(room.clients, idx) ELSE room.clients
             rs1 == [rs EXCEPT ![p].clients = left]
         IN  IF Len(left) = 0
             THEN [rooms |-> DeleteRoom(rs1, p), log |-> log, threw |-> FALSE]
             ELSE [rooms |-> rs1, log |-> log, threw |-> FALSE]

\* removeClientFromRoom(client = {id: c, pin: p}, sendMessage): the room map
\* and the frames delivered after the call, and whether it threw (the
\* peer-left send failed; the room then has one client and is not deleted).
removeClientFromRoom(rs, log, w, c, p) ==
    IF ~HasRoom(rs, p)
    THEN [rooms |-> rs, log |-> log, threw |-> FALSE]
    ELSE LET room == rs[p]
             idx == FindIndex(room.clients, c)
             left == IF idx # 0 THEN Splice(room.clients, idx) ELSE room.clients
             rs1 == [rs EXCEPT ![p].clients = left]
         IN  IF Len(left) = 1
             THEN LET r == sendMessage(log, w, left[1], Frame("peer-left", "none"))
                  IN  [rooms |-> rs1, log |-> r.log, threw |-> ~r.ok]
             ELSE IF Len(left) = 0
             THEN [rooms |-> DeleteRoom(rs1, p), log |-> log, threw |-> FALSE]
             ELSE [rooms |-> rs1, log |-> log, threw |-> FALSE]

\* Mutant of notifyPeer: peer-joined goes to every client of the room.
notifyPeerBroadcast(log, w, rs, c, p) ==
    LET peer == getPeer(rs, c, p)
    IN  IF peer = NoPeer
        THEN [ok |-> TRUE, log |-> log]
        ELSE sendMessage(sendMessage(log, w, peer, Frame("peer-joined", "none")).log,
                         w, c, Frame("peer-joined", "none"))

\* The end of case 'join-pin': peer = getPeer(client); if there is one, it
\* is sent peer-joined (and the joiner is not).
notifyPeer(log, w, rs, c, p) ==
    LET peer == getPeer(rs, c, p)
    IN  IF peer = NoPeer
        THEN [ok |-> TRUE, log |-> log]
        ELSE sendMessage(log, w, peer, Frame("peer-joined", "none"))

\* ---------------------------------------------------------------- actions
\* No page is loaded: the server is driven by arbitrary connections.
NoPages ==
    /\ client = << >>
    /\ wire = << >>
    /\ dispatched = << >>

Init ==
    /\ rooms = << >>
    /\ pin = [c \in Conns |-> NoPin]
    /\ ws = [c \in Conns |-> "new"]
    /\ sent = << >>
    /\ nowMs = 0
    /\ turnSecret = NoSecret
    /\ redis = "null"
    /\ turnCredentials = << >>
    /\ revoked = << >>
    /\ written = {}
    /\ iceServers = << >>
    /\ clientIdCounter = 0
    /\ clientIds = [c \in Conns |-> NoId]
    /\ NoPages

\* No connection closed by the server still awaits its close callback.
NoPendingClose == \A x \in Conns : ws[x] # "closing"

\* A message of c can be handled.
CanHandle(c) == ws[c] \in {"open", "lost"} /\ NoPendingClose

\* The /ws upgrade and handleOpen: ws.data = {id, pin: ''}.
HandleOpen(c) ==
    /\ ws[c] = "new"
    /\ NoPendingClose
    /\ ws' = [ws EXCEPT ![c] = "open"]
    /\ sent' = << >>
    /\ UNCHANGED <<rooms, pin>>

\* Errors after which the catch block closes the connection.
Critical == {"InvalidPinError", "RoomFullError", "InvalidMessageError"}

\* Mutant of CatchResult: the error send is not wrapped in try/catch.
CatchResultLoud(log, w, c, kind) ==
    LET e == sendMessage(log, w, c, Frame("error", kind))
        closed == e.ok /\ kind \in Critical /\ w[c] = "open"
    IN  [ws |-> IF closed THEN [w EXCEPT ![c] = "closing"] ELSE w,
         log |-> IF closed
                 THEN Append(e.log, [to |-> c, frame |-> Frame("close", "1008")])
                 ELSE e.log,
         raised |-> ~e.ok]

\* The catch block of handleMessage for an error of class kind, with log the
\* frames delivered before: try { sendMessage(ws, error) } catch { }, then for
\* the critical errors try { ws.close(1008, ...) } catch { }.  The result is
\* the transports and the frames delivered after it, and whether an
\* exception left the handler.  On a transport that is gone the send throws
\* inside its try and the close has nothing to close.
CatchResult(log, w, c, kind) ==
    LET e == sendMessage(log, w, c, Frame("error", kind))
        closed == kind \in Critical /\ w[c] = "open"
    IN  [ws |-> IF closed THEN [w EXCEPT ![c] = "closing"] ELSE w,
         log |-> IF closed
                 THEN Append(e.log, [to |-> c, frame |-> Frame("close", "1008")])
                 ELSE e.log,
         raised |-> FALSE]

Catch(log, c, kind) ==
    LET r == CatchResult(log, ws, c, kind)
    IN  ws' = r.ws /\ sent' = r.log

\* handleMessage, case 'join-pin', with message.pin = p.
JoinPin(c, p) ==
    /\ CanHandle(c)
    /\ IF p = NoPin
       THEN /\ Catch(<< >>, c, "InvalidMessageError")
            /\ UNCHANGED <<rooms, pin>>
       ELSE IF ~validatePin(p)
       THEN /\ Catch(<< >>, c, "InvalidPinError")
            /\ UNCHANGED <<rooms, pin>>
       ELSE LET rs1 == getOrCreateRoom(rooms, p)
                added == addClientToRoom(rs1[p], c)
                rs2 == [rs1 EXCEPT ![p] = added.room]
                cfg == sendMessage(<< >>, ws, c, Frame("join-pin", "iceServers"))
                told == notifyPeer(cfg.log, ws, rs2, c, p)
            IN  /\ pin' = [pin EXCEPT ![c] = p]
                /\ rooms' = rs2
                /\ IF ~added.ok
                   THEN Catch(<< >>, c, "RoomFullError")
                   ELSE IF ~cfg.ok
                   THEN Catch(cfg.log, c, "Error")
                   ELSE IF told.ok
                   THEN sent' = told.log /\ ws' = ws
                   ELSE Catch(told.log, c, "Error")

\* handleMessage, cases 'offer', 'answer', 'ice-candidate' with message.data = d.
Relay(c, t, d) ==
    /\ CanHandle(c)
    /\ LET peer == getPeer(rooms, c, pin[c])
           r == sendMessage(<< >>, ws, peer, Frame(t, d))
       IN  IF peer = NoPeer
           THEN sent' = << >> /\ ws' = ws
           ELSE IF r.ok
           THEN sent' = r.log /\ ws' = ws
           ELSE Catch(r.log, c, "Error")
    /\ UNCHANGED <<rooms, pin>>

\* handleMessage, case 'leave'.
Leave(c) ==
    /\ CanHandle(c)
    /\ LET r == removeClientFromRoom(rooms, << >>, ws, c, pin[c])
       IN  /\ rooms' = r.rooms
           /\ IF r.threw
              THEN Catch(r.log, c, "Error")
              ELSE sent' = r.log /\ ws' = ws
    /\ UNCHANGED pin

\* handleMessage on a frame that is no message of a known type: JSON.parse
\* throws a SyntaxError, null has no property 'type' (TypeError), a missing
\* or unknown type throws InvalidMessageError.
Malformed(c, k) ==
    /\ CanHandle(c)
    /\ Catch(<< >>, c, IF k \in {"unparseable", "null"} THEN "Error"
                       ELSE "InvalidMessageError")
    /\ UNCHANGED <<rooms, pin>>

\* handleClose: the close callback of c, after the client disconnected or
\* after the server called ws.close.  An exception of removeClientFromRoom
\* leaves the callback; no frame is sent for it.  The socket and its ws.data
\* are dropped with the connection (pin is reset: nothing reads it again).
HandleClose(c) ==
    /\ \/ ws[c] = "closing"
       \/ ws[c] \in {"open", "lost"} /\ NoPendingClose
    /\ LET w == [ws EXCEPT ![c] = "closed"]
           r == removeClientFromRoom(rooms, << >>, w, c, pin[c])
       IN  /\ ws' = w
           /\ rooms' = r.rooms
           /\ sent' = r.log
    /\ pin' = [pin EXCEPT ![c] = NoPin]

\* The server without TURN secret and without blocklist: no callback touches
\* the credential state.
Next ==
    \E c \in Conns :
        \/ HandleOpen(c) /\ UNCHANGED <<tvars, cvars>>
        \/ \E p \in JoinPins : JoinPin(c, p) /\ UNCHANGED <<tvars, cvars>>
        \/ \E t \in RelayTypes, d \in Payloads : Relay(c, t, d) /\ UNCHANGED <<tvars, cvars>>
        \/ Leave(c) /\ UNCHANGED <<tvars, cvars>>
        \/ \E k \in MalformedKinds : Malformed(c, k) /\ UNCHANGED <<tvars, cvars>>
        \/ HandleClose(c) /\ UNCHANGED <<tvars, cvars>>

Spec == Init /\ [][Next]_vars

\* The connections whose transport can fail, and the codes joined and the
\* payload relayed when transports fail (one well-formed code: a send fails
\* or not whatever the room and whatever the frame carries).
FaultyConns == Conns
FaultJoinPins == JoinPins \ {PinB}
FaultPayloads == {"sdp1"}

\* The transport of c fails while c is connected: from now on ws.send to c
\* fails; the frames c sent before are still handled, and the close callback
\* runs later.
TransportLost(c) ==
    /\ c \in FaultyConns
    /\ ws[c] = "open"
    /\ NoPendingClose
    /\ ws' = [ws EXCEPT ![c] = "lost"]
    /\ sent' = << >>
    /\ UNCHANGED <<rooms, pin>>

\* The server with transports that fail.
NextFault ==
    \E c \in Conns :
        \/ HandleOpen(c) /\ UNCHANGED <<tvars, cvars>>
        \/ \E p \in FaultJoinPins : JoinPin(c, p) /\ UNCHANGED <<tvars, cvars>>
        \/ \E t \in RelayTypes, d \in FaultPayloads : Relay(c, t, d) /\ UNCHANGED <<tvars, cvars>>
        \/ Leave(c) /\ UNCHANGED <<tvars, cvars>>
        \/ \E k \in MalformedKinds : Malformed(c, k) /\ UNCHANGED <<tvars, cvars>>
        \/ HandleClose(c) /\ UNCHANGED <<tvars, cvars>>
        \/ TransportLost(c) /\ UNCHANGED <<tvars, cvars>>

SpecFault == Init /\ [][NextFault]_vars

\* ------------------------------------------------- turn.ts with revocation
\* TURN_CREDENTIAL_TTL_SECONDS.
TURN_CREDENTIAL_TTL_SECONDS == 4 * 60 * 60

\* REDIS_KEY_PREFIX.
REDIS_KEY_PREFIX == "turn:revoked:"

\* Values of config.turnSecret when it is set.
Secrets == {"secret-one"}

\* Date.now() when the server starts.
StartMs == 1700

\* The instants at which callbacks run: the start, a second later, and the
\* expiry of the credentials issued at the start.
Instants ==
    {StartMs, StartMs + 1000, StartMs + TURN_CREDENTIAL_TTL_SECONDS * 1000}

\* Connections and join codes of the runs with credentials.
TurnConns == {"c1", "c2"}
TurnJoinPins == {PinA, PinB}

\* Outcome of a SET sent to Redis: stored, or rejected / lost / still pending.
WriteOutcomes == {"stored", "failed"}

\* Math.floor(Date.now() / 1000).
NowSeconds(ms) == ms \div 1000

DigitChar(d) == <<"0", "1", "2", "3", "4", "5", "6", "7", "8", "9">>[d + 1]

\* The decimal rendering of a number in a template literal.
RECURSIVE DecimalDigits(_)
DecimalDigits(n) ==
    IF n < 10 THEN <<DigitChar(n)>>
    ELSE DecimalDigits(n \div 10) \o <<DigitChar(n % 10)>>

\* `${expiresAt}:${clientId}`
Username(expiresAt, clientId) == DecimalDigits(expiresAt) \o <<":", clientId>>

\* new Bun.CryptoHasher('sha1', key).update(msg).digest('base64'): the
\* keyed hash is a function of key and message, kept as a term.
HmacSha1Base64(key, msg) == [alg |-> "hmac-sha1", key |-> key, msg |-> msg, enc |-> "base64"]

\* isTurnConfigured(): secret (and domain, which the configuration requires
\* with it) are set.
isTurnConfigured(secret) == secret # NoSecret

\* Mutant of isRevocationEnabled: the client is not looked at.
isRevocationEnabledAlways(red) == TRUE

\* isRevocationEnabled(): redisClient !== null && redisClient.isOpen.
isRevocationEnabled(red) == red = "open"

\* What becomes of redisClient.connect() at startup.
ConnectOutcomes == {"connected", "refused"}

\* initTurnRedis(): redisClient after it.  Without TURN no client is
\* created; a connect that throws is caught and leaves redisClient = null.
initTurnRedis(secret, outcome) ==
    IF ~isTurnConfigured(secret) THEN "null"
    ELSE IF outcome = "connected" THEN "open"
    ELSE "null"

\* Mutant of generateTurnCredentials: the hash is taken over the client id.
generateTurnCredentialsOverId(clientId, ms, secret) ==
    LET expiresAt == NowSeconds(ms) + TURN_CREDENTIAL_TTL_SECONDS
    IN  [username |-> Username(expiresAt, clientId),
         credential |-> HmacSha1Base64(secret, <<clientId>>),
         expiresAt |-> expiresAt]

\* generateTurnCredentials(clientId) at Date.now() = ms with config.turnSecret
\* = secret (set).
generateTurnCredentials(clientId, ms, secret) ==
    LET expiresAt == NowSeconds(ms) + TURN_CREDENTIAL_TTL_SECONDS
        username == Username(expiresAt, clientId)
    IN  [username |-> username,
         credential |-> HmacSha1Base64(secret, username),
         expiresAt |-> expiresAt]

\* Mutant of revokeTurnCredentials: a remaining lifetime of 0 is written.
revokeTurnCredentialsAtZero(st, red, ms, username, expiresAt, outcome) ==
    LET remainingTtl == expiresAt - NowSeconds(ms)
    IN  IF ~isRevocationEnabled(red) THEN st
        ELSE IF remainingTtl < 0 THEN st
        ELSE IF outcome = "stored"
        THEN st \cup {[key |-> <<REDIS_KEY_PREFIX>> \o username, ex |-> remainingTtl]}
        ELSE st

\* Mutant of revokeTurnCredentials: the entry lives for the full credential
\* lifetime instead of the remaining one.
revokeTurnCredentialsFullTtl(st, red, ms, username, expiresAt, outcome) ==
    LET remainingTtl == expiresAt - NowSeconds(ms)
    IN  IF ~isRevocationEnabled(red) THEN st
        ELSE IF remainingTtl <= 0 THEN st
        ELSE IF outcome = "stored"
        THEN st \cup {[key |-> <<REDIS_KEY_PREFIX>> \o username,
                       ex |-> TURN_CREDENTIAL_TTL_SECONDS]}
        ELSE st

\* revokeTurnCredentials(username, expiresAt) at Date.now() = ms: st and the
\* entry this call writes to the blocklist, if any.  The call returns a promise that never rejects
\* (the SET is inside try/catch).
revokeTurnCredentials(st, red, ms, username, expiresAt, outcome) ==
    LET remainingTtl == expiresAt - NowSeconds(ms)
    IN  IF ~isRevocationEnabled(red) THEN st
        ELSE IF remainingTtl <= 0 THEN st
        ELSE IF outcome = "stored"
        THEN st \cup {[key |-> <<REDIS_KEY_PREFIX>> \o username, ex |-> remainingTtl]}
        ELSE st

\* revokeTurnCredentials for each call of a callback, in order, the i-th
\* write having the outcome outcomes[i] (revokeTurnCredentialsBatch maps
\* revokeTurnCredentials over its argument).
RECURSIVE revokeAll(_, _, _, _, _)
revokeAll(st, red, ms, calls, outcomes) ==
    IF calls = << >> THEN st
    ELSE revokeAll(revokeTurnCredentials(st, red, ms, calls[1].username,
                                         calls[1].expiresAt, outcomes[1]),
                   red, ms, Tail(calls), Tail(outcomes))

\* trackClientCredentials(room, clientId, credentials), room being that of p.
trackClientCredentials(tc, p, clientId, credentials) ==
    [tc EXCEPT ![p] = [x \in DOMAIN tc[p] \cup {clientId} |->
                          IF x = clientId THEN credentials ELSE tc[p][x]]]

\* Array.from(map.values()).
RECURSIVE MapValues(_)
MapValues(m) ==
    IF DOMAIN m = {} THEN << >>
    ELSE LET k == CHOOSE x \in DOMAIN m : TRUE
         IN  <<m[k]>> \o MapValues([x \in DOMAIN m \ {k} |-> m[x]])

\* Mutant of removeClientCredentials: the leaver's credentials are revoked
\* but stay in the map.
removeClientCredentialsKept(rs, tc, c, p) ==
    IF ~HasRoom(rs, p)
    THEN [calls |-> << >>, tc |-> tc]
    ELSE LET idx == FindIndex(rs[p].clients, c)
             left == IF idx # 0 THEN Splice(rs[p].clients, idx) ELSE rs[p].clients
             own == IF c \in DOMAIN tc[p] THEN <<tc[p][c]>> ELSE << >>
         IN  IF Len(left) = 0
             THEN [calls |-> own \o MapValues(tc[p]), tc |-> DeleteRoom(tc, p)]
             ELSE [calls |-> own, tc |-> tc]

\* The credential part of removeClientFromRoom (rooms.ts with
\* room.turnCredentials): the revokeTurnCredentials calls it makes, in order,
\* and the tracking maps after it.  The client's own credentials are revoked
\* and dropped before the peer-left send; those left in a room that becomes
\* empty are revoked in a batch and go with the room.
removeClientCredentials(rs, tc, c, p) ==
    IF ~HasRoom(rs, p)
    THEN [calls |-> << >>, tc |-> tc]
    ELSE LET idx == FindIndex(rs[p].clients, c)
             left == IF idx # 0 THEN Splice(rs[p].clients, idx) ELSE rs[p].clients
             own == IF c \in DOMAIN tc[p] THEN <<tc[p][c]>> ELSE << >>
             mine == [x \in DOMAIN tc[p] \ {c} |-> tc[p][x]]
         IN  IF Len(left) = 0
             THEN [calls |-> own \o MapValues(mine), tc |-> DeleteRoom(tc, p)]
             ELSE [calls |-> own, tc |-> [tc EXCEPT ![p] = mine]]

\* config.stunServers: the comma-separated STUN_SERVERS, split and trimmed.
StunServers == <<"stun:stun.l.google.com:19302", "stun:stun.example.org:3478">>

\* config.domain.
ConfigDomain == "example.org"

\* Mutant of buildIceServers: the last TURN entry carries credentials
\* generated by a second call, one second later.
buildIceServersTwice(clientId, ms, secret) ==
    LET stun == [i \in 1..Len(StunServers) |-> [urls |-> StunServers[i]]]
        domain == "t." \o ConfigDomain
        cr == generateTurnCredentials(clientId, ms, secret)
        cr2 == generateTurnCredentials(clientId, ms + 1000, secret)
        turn(url, k) == [urls |-> url, username |-> k.username,
                         credential |-> k.credential]
    IN  IF isTurnConfigured(secret)
        THEN stun \o <<turn("turns:" \o domain \o ":443?transport=tcp", cr),
                       turn("turns:" \o domain \o ":5349?transport=tcp", cr),
                       turn("turn:" \o domain \o ":3478?transport=tcp", cr),
                       turn("turn:" \o domain \o ":3478?transport=udp", cr2)>>
        ELSE stun

\* buildIceServers(room, clientId), the list it returns: one entry per
\* configured STUN URL and, if TURN is configured, four TURN entries with the
\* username and credential of one generateTurnCredentials(clientId) call.
buildIceServers(clientId, ms, secret) ==
    LET stun == [i \in 1..Len(StunServers) |-> [urls |-> StunServers[i]]]
        domain == "t." \o ConfigDomain
        cr == generateTurnCredentials(clientId, ms, secret)
        turn(url) == [urls |-> url, username |-> cr.username,
                      credential |-> cr.credential]
    IN  IF isTurnConfigured(secret)
        THEN stun \o <<turn("turns:" \o domain \o ":443?transport=tcp"),
                       turn("turns:" \o domain \o ":5349?transport=tcp"),
                       turn("turn:" \o domain \o ":3478?transport=tcp"),
                       turn("turn:" \o domain \o ":3478?transport=udp")>>
        ELSE stun

InitTurn ==
    /\ rooms = << >>
    /\ pin = [c \in Conns |-> NoPin]
    /\ ws = [c \in Conns |-> "new"]
    /\ sent = << >>
    /\ nowMs = StartMs
    /\ turnSecret \in Secrets \cup {NoSecret}
    /\ redis \in {initTurnRedis(turnSecret, o) : o \in ConnectOutcomes}
    /\ turnCredentials = << >>
    /\ revoked = << >>
    /\ written = {}
    /\ iceServers = << >>
    /\ clientIdCounter = 0
    /\ clientIds = [c \in Conns |-> NoId]
    /\ NoPages

\* A callback that neither issues nor revokes credentials.
NoCredentialEffect ==
    /\ revoked' = << >>
    /\ written' = {}
    /\ iceServers' = << >>
    /\ UNCHANGED <<nowMs, turnSecret, redis, turnCredentials, clientIdCounter, clientIds>>

\* case 'join-pin' with buildIceServers(room, clientData.id): the room gets
\* its turnCredentials map when it is created; a seated joiner is issued
\* credentials, which are tracked under its id, if TURN is configured.
TurnJoinPin(c, p) ==
    /\ JoinPin(c, p)
    /\ IF p = NoPin \/ ~validatePin(p)
       THEN NoCredentialEffect
       ELSE LET tc1 == IF p \in DOMAIN turnCredentials THEN turnCredentials
                       ELSE SetRoom(turnCredentials, p, << >>)
                added == addClientToRoom(getOrCreateRoom(rooms, p)[p], c)
                cr == generateTurnCredentials(c, nowMs, turnSecret)
            IN  /\ IF added.ok /\ isTurnConfigured(turnSecret)
                   THEN turnCredentials' =
                           trackClientCredentials(tc1, p, c,
                               [username |-> cr.username, expiresAt |-> cr.expiresAt])
                   ELSE turnCredentials' = tc1
                /\ iceServers' = IF added.ok
                                 THEN buildIceServers(c, nowMs, turnSecret)
                                 ELSE << >>
                /\ revoked' = << >>
                /\ written' = {}
                /\ UNCHANGED <<nowMs, turnSecret, redis, clientIdCounter, clientIds>>

\* Mutant of Revocation: the write is awaited and a write that is not stored
\* aborts the removal of the tracked credentials.
RevocationAwaited(c, p) ==
    LET r == removeClientCredentials(rooms, turnCredentials, c, p)
    IN  /\ revoked' = r.calls
        /\ \E outcomes \in [1..Len(r.calls) -> WriteOutcomes] :
              /\ written' = revokeAll({}, redis, nowMs, r.calls, outcomes)
              /\ turnCredentials' =
                    IF \A i \in 1..Len(r.calls) : outcomes[i] = "stored"
                    THEN r.tc ELSE turnCredentials
        /\ iceServers' = << >>
        /\ UNCHANGED <<nowMs, turnSecret, redis, clientIdCounter, clientIds>>

\* The credential effects of removeClientFromRoom({id: c, pin: p}): the
\* revocations are started and not awaited (void), whatever becomes of them.
Revocation(c, p) ==
    LET r == removeClientCredentials(rooms, turnCredentials, c, p)
    IN  /\ revoked' = r.calls
        /\ turnCredentials' = r.tc
        /\ \E outcomes \in [1..Len(r.calls) -> WriteOutcomes] :
              written' = revokeAll({}, redis, nowMs, r.calls, outcomes)
        /\ iceServers' = << >>
        /\ UNCHANGED <<nowMs, turnSecret, redis, clientIdCounter, clientIds>>

\* case 'leave' and the close callback, with revocation.
TurnLeave(c) == Leave(c) /\ Revocation(c, pin[c])
TurnClose(c) == HandleClose(c) /\ Revocation(c, pin[c])

\* Time passes between two callbacks.
Tick(t) ==
    /\ t > nowMs
    /\ nowMs' = t
    /\ sent' = << >>
    /\ revoked' = << >>
    /\ written' = {}
    /\ iceServers' = << >>
    /\ UNCHANGED <<rooms, pin, ws, turnSecret, redis, turnCredentials,
                   clientIdCounter, clientIds>>

NextTurn ==
    \/ \E c \in TurnConns :
          \/ HandleOpen(c) /\ NoCredentialEffect /\ UNCHANGED cvars
          \/ \E p \in TurnJoinPins : TurnJoinPin(c, p) /\ UNCHANGED cvars
          \/ Relay(c, "offer", "sdp1") /\ NoCredentialEffect /\ UNCHANGED cvars
          \/ TurnLeave(c) /\ UNCHANGED cvars
          \/ Malformed(c, "unknowntype") /\ NoCredentialEffect /\ UNCHANGED cvars
          \/ TurnClose(c) /\ UNCHANGED cvars
    \/ \E t \in Instants : Tick(t) /\ UNCHANGED cvars

SpecTurn == InitTurn /\ [][NextTurn]_vars

\* ----------------------------------------------- connection ids (upgrade)
\* The runs in which ws.data.id is the string generateClientId() returns.
IdsConns == {"c1", "c2"}
IdsJoinPins == {PinA}

\* Upgrades that fail (server.upgrade returns false) in a run, at most.
MaxFailedUpgrades == 2

\* Mutant of generateClientId: the counter is left out of the id.
generateClientIdNoCounter(counter, ms) == <<"client-", "-">> \o DecimalDigits(ms)

\* `client-${++clientIdCounter}-${Date.now()}`, counter being the value
\* after the increment.
generateClientId(counter, ms) ==
    <<"client-">> \o DecimalDigits(counter) \o <<"-">> \o DecimalDigits(ms)

\* The credential part of removeClientFromRoom, as removeClientCredentials,
\* for the client {id, ws: c}: the list is searched for the connection, the
\* map is keyed by the id.
removeClientCredentialsOf(rs, tc, c, id, p) ==
    IF ~HasRoom(rs, p)
    THEN [calls |-> << >>, tc |-> tc]
    ELSE LET idx == FindIndex(rs[p].clients, c)
             left == IF idx # 0 THEN Splice(rs[p].clients, idx) ELSE rs[p].clients
             own == IF id \in DOMAIN tc[p] THEN <<tc[p][id]>> ELSE << >>
             mine == [x \in DOMAIN tc[p] \ {id} |-> tc[p][x]]
         IN  IF Len(left) = 0
             THEN [calls |-> own \o MapValues(mine), tc |-> DeleteRoom(tc, p)]
             ELSE [calls |-> own, tc |-> [tc EXCEPT ![p] = mine]]

InitIds ==
    /\ rooms = << >>
    /\ pin = [c \in Conns |-> NoPin]
    /\ ws = [c \in Conns |-> "new"]
    /\ sent = << >>
    /\ nowMs = StartMs
    /\ turnSecret \in Secrets
    /\ redis = initTurnRedis(turnSecret, "connected")
    /\ turnCredentials = << >>
    /\ revoked = << >>
    /\ written = {}
    /\ iceServers = << >>
    /\ clientIdCounter = 0
    /\ clientIds = [c \in Conns |-> NoId]
    /\ NoPages

\* fetch on /ws: server.upgrade(req, {data: {id: generateClientId(), pin: ''}})
\* succeeds, and the open callback runs.
IdsUpgrade(c) ==
    /\ HandleOpen(c)
    /\ clientIdCounter' = clientIdCounter + 1
    /\ clientIds' = [clientIds EXCEPT ![c] = generateClientId(clientIdCounter + 1, nowMs)]
    /\ revoked' = << >>
    /\ written' = {}
    /\ iceServers' = << >>
    /\ UNCHANGED <<nowMs, turnSecret, redis, turnCredentials>>

\* fetch on /ws: the id is generated, server.upgrade returns false.
IdsUpgradeFailed ==
    /\ clientIdCounter < MaxFailedUpgrades
    /\ clientIdCounter' = clientIdCounter + 1
    /\ sent' = << >>
    /\ revoked' = << >>
    /\ written' = {}
    /\ iceServers' = << >>
    /\ UNCHANGED <<rooms, pin, ws, nowMs, turnSecret, redis, turnCredentials, clientIds>>

\* case 'join-pin' with buildIceServers(room, clientData.id).
IdsJoinPin(c, p) ==
    /\ JoinPin(c, p)
    /\ IF p = NoPin \/ ~validatePin(p)
       THEN NoCredentialEffect
       ELSE LET tc1 == IF p \in DOMAIN turnCredentials THEN turnCredentials
                       ELSE SetRoom(turnCredentials, p, << >>)
                added == addClientToRoom(getOrCreateRoom(rooms, p)[p], c)
                cr == generateTurnCredentials(clientIds[c], nowMs, turnSecret)
            IN  /\ IF added.ok /\ isTurnConfigured(turnSecret)
                   THEN turnCredentials' =
                           trackClientCredentials(tc1, p, clientIds[c],
                               [username |-> cr.username, expiresAt |-> cr.expiresAt])
                   ELSE turnCredentials' = tc1
                /\ iceServers' = IF added.ok
                                 THEN buildIceServers(clientIds[c], nowMs, turnSecret)
                                 ELSE << >>
                /\ revoked' = << >>
                /\ written' = {}
                /\ UNCHANGED <<nowMs, turnSecret, redis, clientIdCounter, clientIds>>

\* The credential effects of removeClientFromRoom({id: clientIds[c], pin: p, ws: c}).
IdsRevocation(c, p) ==
    LET r == removeClientCredentialsOf(rooms, turnCredentials, c, clientIds[c], p)
    IN  /\ revoked' = r.calls
        /\ turnCredentials' = r.tc
        /\ \E outcomes \in [1..Len(r.calls) -> WriteOutcomes] :
              written' = revokeAll({}, redis, nowMs, r.calls, outcomes)
        /\ iceServers' = << >>
        /\ UNCHANGED <<nowMs, turnSecret, redis, clientIdCounter, clientIds>>

IdsLeave(c) == Leave(c) /\ IdsRevocation(c, pin[c])
IdsClose(c) == HandleClose(c) /\ IdsRevocation(c, pin[c])

NextIds ==
    \/ \E c \in IdsConns :
          \/ IdsUpgrade(c) /\ UNCHANGED cvars
          \/ \E p \in IdsJoinPins : IdsJoinPin(c, p) /\ UNCHANGED cvars
          \/ IdsLeave(c) /\ UNCHANGED cvars
          \/ IdsClose(c) /\ UNCHANGED cvars
    \/ IdsUpgradeFailed /\ UNCHANGED cvars
    \/ \E t \in Instants : Tick(t) /\ UNCHANGED cvars

SpecIds == InitIds /\ [][NextIds]_vars

\* ----------------------------------------------------------- client/state.ts
\* null: a resource of AppState that is not held.
Null == "null"

\* initialState.
initialState ==
    [screen |-> [type |-> "pin-entry"], ws |-> Null, pc |-> Null,
     localStream |-> Null, remoteStream |-> Null, iceServers |-> Null]

\* getCloseCodeDescription.
getCloseCodeDescription(code) ==
    CASE code = 1000 -> "Normal closure"
      [] code = 1001 -> "Server going away"
      [] code = 1002 -> "Protocol error"
      [] code = 1003 -> "Unsupported data type"
      [] code = 1006 -> "Connection lost (no close frame)"
      [] code = 1007 -> "Invalid message data"
      [] code = 1008 -> "Policy violation"
      [] code = 1009 -> "Message too large"
      [] code = 1011 -> "Server error"
      [] OTHER -> "Unexpected error (code " \o ToString(code) \o ")"

\* Mutant of SUBMIT_PIN: the case without its guard.
SUBMIT_PIN_Unguarded(state, action) ==
    [state EXCEPT !.screen = [type |-> "connecting", pin |-> action.pin]]

\* The cases of reducer, one operator per case label.
SUBMIT_PIN(state, action) ==
    IF state.screen.type # "pin-entry" THEN state
    ELSE [state EXCEPT !.screen = [type |-> "connecting", pin |-> action.pin]]

WS_CONNECTED(state, action) ==
    IF state.screen.type # "connecting" THEN state
    ELSE [state EXCEPT
            !.screen = [type |-> "acquiring-media", pin |-> state.screen.pin]]

WS_ERROR(state, action) ==
    [state EXCEPT !.screen = [type |-> "error", message |-> action.error,
                              canRetry |-> TRUE,
                              previousScreen |-> state.screen]]

WS_CLOSED(state, action) ==
    IF action.intentional
    THEN [state EXCEPT !.screen = [type |-> "pin-entry"]]
    ELSE LET errorMessage == IF action.reason # "" THEN action.reason
                             ELSE getCloseCodeDescription(action.code)
         IN  [state EXCEPT
                !.screen = [type |-> "error",
                            message |-> "Connection closed: " \o errorMessage,
                            canRetry |-> TRUE,
                            previousScreen |-> state.screen]]

MEDIA_ACQUIRED(state, action) ==
    IF state.screen.type # "acquiring-media" THEN state
    ELSE [state EXCEPT
            !.localStream = action.stream,
            !.screen = [type |-> "waiting-for-peer", pin |-> state.screen.pin]]

MEDIA_ERROR(state, action) ==
    [state EXCEPT !.screen = [type |-> "error", message |-> action.error,
                              canRetry |-> TRUE,
                              previousScreen |-> state.screen]]

JOINED_ROOM(state, action) ==
    [state EXCEPT !.iceServers = action.iceServers]

PEER_JOINED(state, action) ==
    IF state.screen.type # "waiting-for-peer" THEN state
    ELSE [state EXCEPT !.screen = [type |-> "negotiating",
                                   pin |-> state.screen.pin,
                                   role |-> "caller"]]

\* Mutant of RECEIVED_OFFER: the page that is offered a call takes the
\* role of the caller.
RECEIVED_OFFER_Caller(state, action) ==
    IF state.screen.type # "waiting-for-peer" THEN state
    ELSE [state EXCEPT !.screen = [type |-> "negotiating",
                                   pin |-> state.screen.pin,
                                   role |-> "caller"]]

RECEIVED_OFFER(state, action) ==
    IF state.screen.type # "waiting-for-peer" THEN state
    ELSE [state EXCEPT !.screen = [type |-> "negotiating",
                                   pin |-> state.screen.pin,
                                   role |-> "callee"]]

RECEIVED_ANSWER(state, action) == state

RECEIVED_ICE_CANDIDATE(state, action) == state

PEER_LEFT(state, action) ==
    [state EXCEPT !.screen = [type |-> "error",
                              message |-> "The other person left the call",
                              canRetry |-> FALSE]]

SERVER_ERROR_Retryable(state, action) ==
    [state EXCEPT !.screen = [type |-> "error", message |-> action.error,
                              canRetry |-> TRUE,
                              previousScreen |-> state.screen]]

SERVER_ERROR(state, action) ==
    [state EXCEPT !.screen = [type |-> "error", message |-> action.error,
                              canRetry |-> FALSE]]

RTC_TRACK_RECEIVED(state, action) ==
    [state EXCEPT !.remoteStream = action.stream]

\* Mutant of RTC_CONNECTED: the guard also lets a waiting page through.
RTC_CONNECTED_Early(state, action) ==
    IF state.screen.type \notin {"negotiating", "waiting-for-peer"} THEN state
    ELSE [state EXCEPT !.screen = [type |-> "call", pin |-> state.screen.pin,
                                   muted |-> FALSE, videoOff |-> FALSE]]

RTC_CONNECTED(state, action) ==
    IF state.screen.type # "negotiating" THEN state
    ELSE [state EXCEPT !.screen = [type |-> "call", pin |-> state.screen.pin,
                                   muted |-> FALSE, videoOff |-> FALSE]]

RTC_DISCONNECTED(state, action) == state

RTC_FAILED(state, action) ==
    [state EXCEPT !.screen = [type |-> "error", message |-> action.reason,
                              canRetry |-> FALSE]]

TOGGLE_MUTE_Both(state, action) ==
    IF state.screen.type # "call" THEN state
    ELSE [state EXCEPT !.screen.muted = ~state.screen.muted,
                       !.screen.videoOff = ~state.screen.videoOff]

TOGGLE_MUTE(state, action) ==
    IF state.screen.type # "call" THEN state
    ELSE [state EXCEPT !.screen.muted = ~state.screen.muted]

TOGGLE_VIDEO(state, action) ==
    IF state.screen.type # "call" THEN state
    ELSE [state EXCEPT !.screen.videoOff = ~state.screen.videoOff]

\* Mutant of HANGUP: a hangup behind an error screen is ignored.
HANGUP_Guarded(state, action) ==
    IF state.screen.type = "error" THEN state
    ELSE [state EXCEPT !.screen = [type |-> "pin-entry"]]

HANGUP(state, action) ==
    [state EXCEPT !.screen = [type |-> "pin-entry"]]

DISMISS_ERROR(state, action) ==
    IF state.screen.type # "error" THEN state
    ELSE [state EXCEPT !.screen = [type |-> "pin-entry"]]

\* reducer.
reducer(state, action) ==
    CASE action.type = "SUBMIT_PIN" -> SUBMIT_PIN(state, action)
      [] action.type = "WS_CONNECTED" -> WS_CONNECTED(state, action)
      [] action.type = "WS_ERROR" -> WS_ERROR(state, action)
      [] action.type = "WS_CLOSED" -> WS_CLOSED(state, action)
      [] action.type = "MEDIA_ACQUIRED" -> MEDIA_ACQUIRED(state, action)
      [] action.type = "MEDIA_ERROR" -> MEDIA_ERROR(state, action)
      [] action.type = "JOINED_ROOM" -> JOINED_ROOM(state, action)
      [] action.type = "PEER_JOINED" -> PEER_JOINED(state, action)
      [] action.type = "RECEIVED_OFFER" -> RECEIVED_OFFER(state, action)
      [] action.type = "RECEIVED_ANSWER" -> RECEIVED_ANSWER(state, action)
      [] action.type = "RECEIVED_ICE_CANDIDATE" ->
            RECEIVED_ICE_CANDIDATE(state, action)
      [] action.type = "PEER_LEFT" -> PEER_LEFT(state, action)
      [] action.type = "SERVER_ERROR" -> SERVER_ERROR(state, action)
      [] action.type = "RTC_TRACK_RECEIVED" -> RTC_TRACK_RECEIVED(state, action)
      [] action.type = "RTC_CONNECTED" -> RTC_CONNECTED(state, action)
      [] action.type = "RTC_DISCONNECTED" -> RTC_DISCONNECTED(state, action)
      [] action.type = "RTC_FAILED" -> RTC_FAILED(state, action)
      [] action.type = "TOGGLE_MUTE" -> TOGGLE_MUTE(state, action)
      [] action.type = "TOGGLE_VIDEO" -> TOGGLE_VIDEO(state, action)
      [] action.type = "HANGUP" -> HANGUP(state, action)
      [] action.type = "DISMISS_ERROR" -> DISMISS_ERROR(state, action)
      [] OTHER -> state

\* --------------------------------------- client/effects.ts, client/websocket.ts
\* A page is the module state of client.ts and effects.ts together with the
\* promises the page awaits:
\*   state           the AppState
\*   errorTimeoutId  Null or the pending timer
\*   media           the getUserMedia calls that have not settled
\*   offers          the createOffer chains that have not settled, each by the
\*                   ws of the state it captured
\*   answers         the handleOffer calls that have not settled, by their ws
\*   tracks          enabled of the audio and video track of the MediaStream
\*                   the page acquired last
\* While handleSideEffects runs, the record also carries
\*   rs      readyState of every WebSocket
\*   out     the messages passed to ws.send, as [ws, message]
\*   threw   an exception has left handleSideEffects

\* The id window.setTimeout returns for the timer set while screen is
\* displayed: one id per error screen.
TimerId(screen) == "timeout " \o ToString(screen)

\* A page that has just loaded.
initialPage ==
    [state |-> initialState, errorTimeoutId |-> Null, media |-> 0,
     offers |-> {}, answers |-> {}, tracks |-> [audio |-> TRUE, video |-> TRUE]]

\* sendMessage of client/websocket.ts.
sendMessageClient(e, w, message) ==
    IF w = Null \/ e.rs[w] # "OPEN" THEN e
    ELSE [e EXCEPT !.out = Append(@, [ws |-> w, message |-> message])]

\* closeWebSocket.
closeWebSocket(e, w) ==
    IF e.rs[w] \in {"OPEN", "CONNECTING"}
    THEN [e EXCEPT !.rs[w] = "CLOSING"]
    ELSE e

\* cleanup.
cleanup(e) ==
    LET closed == IF e.state.ws # Null THEN closeWebSocket(e, e.state.ws) ELSE e
    IN  [closed EXCEPT !.state.pc = Null, !.state.localStream = Null,
                       !.state.ws = Null, !.state.remoteStream = Null]

\* createPeerConnection: throws without ICE servers.
createPeerConnection(e) ==
    IF e.state.iceServers = Null
    THEN [e EXCEPT !.threw = TRUE]
    ELSE [e EXCEPT !.state.pc = "pc"]

\* handleSideEffects, the blocks in their order.  prevScreen and newScreen are
\* the screen types before and after the reducer; sock is the WebSocket that
\* createWebSocket would return.
connectingEffect(e, prevScreen, newScreen, sock) ==
    IF newScreen = "connecting" /\ prevScreen # "connecting"
    THEN [e EXCEPT !.state.ws = sock, !.rs[sock] = "CONNECTING"]
    ELSE e

acquiringMediaEffect(e, prevScreen, newScreen) ==
    IF newScreen = "acquiring-media" /\ prevScreen # "acquiring-media"
    THEN [e EXCEPT !.media = @ + 1]
    ELSE e

mediaAcquiredEffect(e, prevScreen, newScreen, action) ==
    IF action.type = "MEDIA_ACQUIRED" /\ newScreen = "waiting-for-peer"
    THEN sendMessageClient(e, e.state.ws,
                           [type |-> "join-pin", pin |-> e.state.screen.pin])
    ELSE e

callerEffect(e, prevScreen, newScreen) ==
    IF newScreen = "negotiating" /\ prevScreen # "negotiating"
       /\ e.state.screen.role = "caller"
    THEN LET c == createPeerConnection(e)
         IN  IF c.threw THEN c
             ELSE [c EXCEPT !.offers = @ \cup {c.state.ws}]
    ELSE e

receivedOfferEffect(e, action) ==
    IF e.threw \/ action.type # "RECEIVED_OFFER" THEN e
    ELSE LET c == IF e.state.pc = Null THEN createPeerConnection(e) ELSE e
         IN  IF c.threw THEN c
             ELSE [c EXCEPT !.answers = @ \cup {c.state.ws}]

toggleMuteEffect(e, action) ==
    IF e.threw \/ action.type # "TOGGLE_MUTE" \/ e.state.localStream = Null
    THEN e
    ELSE IF e.state.screen.type = "call"
    THEN [e EXCEPT !.tracks.audio = ~e.state.screen.muted]
    ELSE e

toggleVideoEffect(e, action) ==
    IF e.threw \/ action.type # "TOGGLE_VIDEO" \/ e.state.localStream = Null
    THEN e
    ELSE IF e.state.screen.type = "call"
    THEN [e EXCEPT !.tracks.video = ~e.state.screen.videoOff]
    ELSE e

hangupEffect(e, action) ==
    IF e.threw \/ action.type # "HANGUP" THEN e
    ELSE cleanup(IF e.state.ws # Null
                 THEN sendMessageClient(e, e.state.ws, [type |-> "leave"])
                 ELSE e)

errorTimeoutEffect(e, prevScreen, newScreen) ==
    IF e.threw THEN e
    ELSE LET armed == IF newScreen = "error" /\ prevScreen # "error"
                      THEN [e EXCEPT !.errorTimeoutId = TimerId(e.state.screen)]
                      ELSE e
         IN  IF prevScreen = "error" /\ newScreen # "error"
             THEN [armed EXCEPT !.errorTimeoutId = Null]
             ELSE armed

terminalErrorEffect(e, newScreen) ==
    IF e.threw THEN e
    ELSE IF newScreen = "error" /\ ~e.state.screen.canRetry
    THEN cleanup(e)
    ELSE e

handleSideEffects(e, prevState, action, sock) ==
    LET prevScreen == prevState.screen.type
        newScreen == e.state.screen.type
        e1 == connectingEffect(e, prevScreen, newScreen, sock)
        e2 == acquiringMediaEffect(e1, prevScreen, newScreen)
        e3 == mediaAcquiredEffect(e2, prevScreen, newScreen, action)
        e4 == callerEffect(e3, prevScreen, newScreen)
        e5 == toggleVideoEffect(
                  toggleMuteEffect(receivedOfferEffect(e4, action), action),
                  action)
        e6 == hangupEffect(e5, action)
        e7 == errorTimeoutEffect(e6, prevScreen, newScreen)
    IN  terminalErrorEffect(e7, newScreen)

\* dispatch of client.ts: the reducer, then the side effects (render only
\* reads the state).  r: readyState of the WebSockets.  The stream of an
\* accepted MEDIA_ACQUIRED is new: its tracks are enabled.
dispatch(page, r, action, sock) ==
    LET e == [state |-> reducer(page.state, action),
              errorTimeoutId |-> page.errorTimeoutId,
              media |-> page.media, offers |-> page.offers,
              answers |-> page.answers,
              tracks |-> IF /\ action.type = "MEDIA_ACQUIRED"
                            /\ page.state.screen.type = "acquiring-media"
                         THEN [audio |-> TRUE, video |-> TRUE]
                         ELSE page.tracks,
              rs |-> r, out |-> << >>, threw |-> FALSE]
    IN  handleSideEffects(e, page.state, action, sock)

\* The page after a dispatch that returned e.
PageOf(e) ==
    [state |-> e.state, errorTimeoutId |-> e.errorTimeoutId, media |-> e.media,
     offers |-> e.offers, answers |-> e.answers, tracks |-> e.tracks]

\* handleServerMessage: the action dispatched for a frame of the server.
handleServerMessage(fr) ==
    CASE fr.type = "join-pin" -> [type |-> "JOINED_ROOM", iceServers |-> fr.data]
      [] fr.type = "peer-joined" -> [type |-> "PEER_JOINED"]
      [] fr.type = "offer" -> [type |-> "RECEIVED_OFFER", offer |-> fr.data]
      [] fr.type = "answer" -> [type |-> "RECEIVED_ANSWER", answer |-> fr.data]
      [] fr.type = "ice-candidate" ->
            [type |-> "RECEIVED_ICE_CANDIDATE", candidate |-> fr.data]
      [] fr.type = "peer-left" -> [type |-> "PEER_LEFT"]
      [] fr.type = "error" -> [type |-> "SERVER_ERROR", error |-> fr.data]

\* ws.onclose: the action dispatched for a close event.
onclose(code, reason) ==
    [type |-> "WS_CLOSED", code |-> code, reason |-> reason,
     intentional |-> (code = 1000 /\ reason = "User ended call")]

\* ws.onerror.
onerror ==
    [type |-> "WS_ERROR",
     error |-> "WebSocket connection failed. Check server is running."]

\* No dispatch ran in the step.
NoDispatch ==
    [page |-> Null, action |-> [type |-> "none"], out |-> << >>, threw |-> FALSE]

\* ------------------------------------------------ the reducer on its own
\* One page whose dispatch is called with any action at any time (the
\* handlers of the page and the console can pass any action).  The server is
\* not running: WebSockets are not told apart, the messages of the page go
\* nowhere, and the promises of the page are not followed.
ReducerPage == "A"
ReducerSocket == "c1"

\* The actions (type Action), with the strings the page passes.
ReducerActions ==
    {[type |-> "SUBMIT_PIN", pin |-> p] : p \in {PinA, PinB}}
    \cup {[type |-> t] : t \in {"TOGGLE_MUTE", "TOGGLE_VIDEO", "HANGUP",
                                "DISMISS_ERROR", "WS_CONNECTED", "PEER_JOINED",
                                "PEER_LEFT", "RTC_CONNECTED",
                                "RTC_DISCONNECTED"}}
    \cup {onerror,
          onclose(1000, "User ended call"),
          onclose(1006, ""),
          onclose(1008, "Room full"),
          [type |-> "MEDIA_ACQUIRED", stream |-> "stream", audioOnly |-> FALSE],
          [type |-> "MEDIA_ERROR", error |-> "PIN must be exactly 6 digits"],
          [type |-> "JOINED_ROOM", iceServers |-> "iceServers"],
          [type |-> "RECEIVED_OFFER", offer |-> "sdp1"],
          [type |-> "RECEIVED_ANSWER", answer |-> "sdp2"],
          [type |-> "RECEIVED_ICE_CANDIDATE", candidate |-> "sdp1"],
          [type |-> "SERVER_ERROR", error |-> "Room full"],
          [type |-> "RTC_FAILED",
           reason |-> "Connection failed. Please check your network and try again."],
          [type |-> "RTC_TRACK_RECEIVED", stream |-> "remote"]}

\* An error screen that came from an error screen.
NestedError(screen) ==
    /\ screen.type = "error"
    /\ "previousScreen" \in DOMAIN screen
    /\ screen.previousScreen.type = "error"

\* readyState after the socket events that the actions stand for.
ReducerReadyState(r, action) ==
    CASE action.type = "WS_CONNECTED" /\ r = "CONNECTING" -> "OPEN"
      [] action.type = "WS_CLOSED" -> "CLOSED"
      [] OTHER -> r

InitReducer ==
    /\ rooms = << >>
    /\ pin = [c \in Conns |-> NoPin]
    /\ ws = [c \in Conns |-> "new"]
    /\ sent = << >>
    /\ nowMs = 0
    /\ turnSecret = NoSecret
    /\ redis = "null"
    /\ turnCredentials = << >>
    /\ revoked = << >>
    /\ written = {}
    /\ iceServers = << >>
    /\ clientIdCounter = 0
    /\ clientIds = [c \in Conns |-> NoId]
    /\ client = [k \in {ReducerPage} |-> initialPage]
    /\ wire = [c \in {ReducerSocket} |->
                 [readyState |-> "CLOSED", up |-> << >>, down |-> << >>]]
    /\ dispatched = NoDispatch

\* dispatch(action) on the page.
Dispatch(action) ==
    LET e == dispatch(client[ReducerPage],
                      [c \in DOMAIN wire |-> wire[c].readyState],
                      action, ReducerSocket)
    IN  /\ client' = [client EXCEPT ![ReducerPage] =
                        [PageOf(e) EXCEPT !.media = 0, !.offers = {},
                                          !.answers = {}]]
        /\ wire' = [c \in DOMAIN wire |->
                      [wire[c] EXCEPT !.readyState =
                          ReducerReadyState(e.rs[c], action)]]
        /\ dispatched' = [page |-> ReducerPage, action |-> action,
                          out |-> e.out, threw |-> e.threw]
        /\ UNCHANGED <<rooms, pin, ws, sent, tvars>>

NextReducer ==
    \E action \in ReducerActions :
        /\ ~NestedError(client[ReducerPage].state.screen)
        /\ Dispatch(action)

SpecReducer == InitReducer /\ [][NextReducer]_vars

\* ------------------------------------------- two pages and the server
\* The pages and the WebSockets each of them can create, in order.
CallPages == {"A", "B"}
socketsOf == [k \in CallPages |-> IF k = "A" THEN <<"c1", "c3">> ELSE <<"c2">>]

\* The connections the network can lose.
LossyConns == {"c1", "c2"}

\* What the users type into the PIN form.
FormInputs == {PinA, <<"a", "b", "c">>}

\* The page that created WebSocket c.
Owner(c) == CHOOSE k \in CallPages : \E i \in DOMAIN socketsOf[k] : socketsOf[k][i] = c

\* createWebSocket: the next WebSocket of page k (Null: none is left).
createWebSocket(k) ==
    LET free == {i \in DOMAIN socketsOf[k] : wire[socketsOf[k][i]].readyState = "NONE"}
    IN  IF free = {} THEN Null
        ELSE socketsOf[k][CHOOSE i \in free : \A j \in free : i <= j]

\* Events of a WebSocket on their way to its page.
OpenEvent == [ev |-> "open"]
MessageEvent(fr) == [ev |-> "message", frame |-> fr]
ErrorEvent == [ev |-> "error"]
CloseEvent(code, reason) == [ev |-> "close", code |-> code, reason |-> reason]

\* The close frame a page sends with ws.close(1000, 'User ended call'); a
\* close() before the connection is open fails the connection instead.
CloseFrame(wasOpen) == [type |-> "close", clean |-> wasOpen]

\* The event that ends a connection that failed (no close frame).
Failed == <<CloseEvent(1006, "")>>

RECURSIVE Messages(_, _)
\* The messages of out that were passed to the send of WebSocket c.
Messages(out, c) ==
    IF out = << >> THEN << >>
    ELSE IF Head(out).ws = c
    THEN <<Head(out).message>> \o Messages(Tail(out), c)
    ELSE Messages(Tail(out), c)

\* The connections after a callback of a page: e is what the callback did, w
\* the connections before it, srv the transports of the server.  A message
\* for a connection the server has closed is discarded.  ws.close() stops
\* the message events of the WebSocket (readyState is no longer OPEN); its
\* close event is still due.
Transmit(w, srv, e) ==
    [c \in DOMAIN w |->
        LET closing == e.rs[c] = "CLOSING" /\ w[c].readyState # "CLOSING"
            gone == srv[c] \in {"closing", "closed"}
            msgs == Messages(e.out, c)
        IN  [readyState |-> e.rs[c],
             up |-> IF gone THEN << >>
                    ELSE IF closing
                    THEN (w[c].up \o msgs)
                         \o <<CloseFrame(w[c].readyState = "OPEN")>>
                    ELSE w[c].up \o msgs,
             down |-> IF closing
                      THEN SelectSeq(w[c].down, LAMBDA v : v.ev = "close")
                      ELSE w[c].down]]

\* The message of the error frame that precedes entry i of log on the same
\* transport: the reason of ws.close(1008, errorMessage).
CloseReason(log, i) ==
    LET errs == {j \in 1..(i - 1) : /\ log[j].to = log[i].to
                                     /\ log[j].frame.type = "error"}
    IN  IF errs = {} THEN ""
        ELSE log[CHOOSE j \in errs : \A h \in errs : h <= j].frame.data

RECURSIVE Deliver(_, _, _)
\* The connections after a callback of the server whose log is log, from
\* entry i on: a frame becomes a message event of an OPEN WebSocket, a
\* ws.close of the server becomes its close event, and what the page sent
\* after it is discarded.
Deliver(w, log, i) ==
    IF i > Len(log) THEN w
    ELSE LET c == log[i].to
             fr == log[i].frame
         IN  IF fr.type = "close"
             THEN Deliver([w EXCEPT ![c].up = << >>,
                                    ![c].down = Append(@, CloseEvent(1008, CloseReason(log, i)))],
                          log, i + 1)
             ELSE IF w[c].readyState = "OPEN"
             THEN Deliver([w EXCEPT ![c].down = Append(@, MessageEvent(fr))],
                          log, i + 1)
             ELSE Deliver(w, log, i + 1)

InitCall ==
    /\ rooms = << >>
    /\ pin = [c \in Conns |-> NoPin]
    /\ ws = [c \in Conns |-> "new"]
    /\ sent = << >>
    /\ nowMs = 0
    /\ turnSecret = NoSecret
    /\ redis = "null"
    /\ turnCredentials = << >>
    /\ revoked = << >>
    /\ written = {}
    /\ iceServers = << >>
    /\ clientIdCounter = 0
    /\ clientIds = [c \in Conns |-> NoId]
    /\ client = [k \in CallPages |-> initialPage]
    /\ wire = [c \in Conns |-> [readyState |-> "NONE", up |-> << >>, down |-> << >>]]
    /\ dispatched = NoDispatch

\* --- callbacks of the server
\* The upgrade of a connection a page has created.
ServerOpen(c) ==
    /\ wire[c].readyState \in {"CONNECTING", "CLOSING"}
    /\ HandleOpen(c)
    /\ wire' = [wire EXCEPT ![c].down =
                  IF wire[c].readyState = "CONNECTING"
                  THEN Append(@, OpenEvent) ELSE @]
    /\ dispatched' = NoDispatch
    /\ UNCHANGED <<client, tvars>>

\* The message callback for the next frame of connection c; for a close
\* frame the close callback, after which the close event reaches the page.
ServerMessage(c) ==
    /\ wire[c].up # << >>
    /\ ws[c] = "open"
    /\ LET m == Head(wire[c].up)
           w == [wire EXCEPT ![c].up = Tail(@)]
       IN  CASE m.type = "join-pin" ->
                  /\ JoinPin(c, m.pin)
                  /\ wire' = Deliver(w, sent', 1)
             [] m.type \in RelayTypes ->
                  /\ Relay(c, m.type, m.data)
                  /\ wire' = Deliver(w, sent', 1)
             [] m.type = "leave" ->
                  /\ Leave(c)
                  /\ wire' = Deliver(w, sent', 1)
             [] m.type = "close" ->
                  /\ HandleClose(c)
                  /\ wire' = Deliver(
                        [w EXCEPT ![c].down =
                            @ \o (IF m.clean
                                  THEN <<CloseEvent(1000, "User ended call")>>
                                  ELSE Failed)],
                        sent', 1)
    /\ dispatched' = NoDispatch
    /\ UNCHANGED <<client, tvars>>

\* The close callback after the server called ws.close.
ServerClose(c) ==
    /\ ws[c] = "closing"
    /\ HandleClose(c)
    /\ wire' = Deliver(wire, sent', 1)
    /\ dispatched' = NoDispatch
    /\ UNCHANGED <<client, tvars>>

\* The network loses connection c: the server runs its close callback, the
\* page gets the close event, frames on their way up are lost.
Drop(c) ==
    /\ c \in LossyConns
    /\ wire[c].readyState = "OPEN"
    /\ ws[c] = "open"
    /\ HandleClose(c)
    /\ wire' = Deliver([wire EXCEPT ![c].up = << >>, ![c].down = @ \o Failed],
                       sent', 1)
    /\ dispatched' = NoDispatch
    /\ UNCHANGED <<client, tvars>>

\* --- callbacks of a page
\* A callback of page k that calls dispatch(action): p is the page and w the
\* connections when dispatch is called.
PageDispatch(k, p, w, action, sock) ==
    LET e == dispatch(p, [c \in DOMAIN w |-> w[c].readyState], action, sock)
    IN  /\ client' = [client EXCEPT ![k] = PageOf(e)]
        /\ wire' = Transmit(w, ws, e)
        /\ dispatched' = [page |-> k, action |-> action, out |-> e.out,
                          threw |-> e.threw]
        /\ sent' = << >>
        /\ UNCHANGED <<rooms, pin, ws, tvars>>

\* A promise continuation of page k that sends message through the
\* WebSocket s it captured (sendMessage of client/websocket.ts).
PageSend(k, p, s, message) ==
    LET e == sendMessageClient(
                [rs |-> [c \in DOMAIN wire |-> wire[c].readyState], out |-> << >>],
                s, message)
    IN  /\ client' = [client EXCEPT ![k] = p]
        /\ wire' = Transmit(wire, ws, e)
        /\ dispatched' = [NoDispatch EXCEPT !.page = k, !.out = e.out]
        /\ sent' = << >>
        /\ UNCHANGED <<rooms, pin, ws, tvars>>

\* The submit handler of the PIN form (client/events.ts); the form is shown
\* on the PIN entry screen and behind a retryable error.  Behind an error
\* ill-formed input is typed only when the error came up on the PIN entry
\* screen, which keeps the nesting of previousScreen finite.
SubmitForm(k, text) ==
    /\ \/ client[k].state.screen.type = "pin-entry"
       \/ /\ client[k].state.screen.type = "error"
          /\ client[k].state.screen.canRetry
          /\ \/ validatePin(text)
             \/ client[k].state.screen.previousScreen.type = "pin-entry"
    /\ createWebSocket(k) # Null
    /\ PageDispatch(k, client[k], wire,
                    IF validatePin(text)
                    THEN [type |-> "SUBMIT_PIN", pin |-> text]
                    ELSE [type |-> "MEDIA_ERROR",
                          error |-> "PIN must be exactly 6 digits"],
                    createWebSocket(k))

\* The click handler of the hangup button, shown with the call interface.
ClickHangup(k) ==
    /\ client[k].state.screen.type \in {"waiting-for-peer", "negotiating", "call"}
    /\ PageDispatch(k, client[k], wire, [type |-> "HANGUP"], Null)

\* The next event of WebSocket c: onopen, onmessage, onerror, onclose.
SocketEvent(c) ==
    /\ wire[c].down # << >>
    /\ LET v == Head(wire[c].down)
           k == Owner(c)
           w == [wire EXCEPT ![c].down = Tail(@),
                             ![c].readyState =
                                 CASE v.ev = "open" -> "OPEN"
                                   [] v.ev = "close" -> "CLOSED"
                                   [] OTHER -> @]
       IN  PageDispatch(k, client[k], w,
                        CASE v.ev = "open" -> [type |-> "WS_CONNECTED"]
                          [] v.ev = "message" -> handleServerMessage(v.frame)
                          [] v.ev = "error" -> onerror
                          [] v.ev = "close" -> onclose(v.code, v.reason),
                        Null)

\* getUserMedia settles: a stream, or no device or permission.
MediaSettled(k, ok) ==
    /\ client[k].media > 0
    /\ PageDispatch(k, [client[k] EXCEPT !.media = @ - 1], wire,
                    IF ok
                    THEN [type |-> "MEDIA_ACQUIRED", stream |-> "stream",
                          audioOnly |-> FALSE]
                    ELSE [type |-> "MEDIA_ERROR",
                          error |-> "Microphone permission denied. Please allow access and try again."],
                    Null)

\* The createOffer chain of the caller settles and sends the offer.  (A
\* chain that rejects dispatches RTC_FAILED, as ConnectionStateChange does.)
OfferSettled(k, s) ==
    /\ s \in client[k].offers
    /\ PageSend(k, [client[k] EXCEPT !.offers = @ \ {s}], s,
                [type |-> "offer", data |-> "sdp1"])

\* handleOffer settles and sends the answer.
AnswerSettled(k, s) ==
    /\ s \in client[k].answers
    /\ PageSend(k, [client[k] EXCEPT !.answers = @ \ {s}], s,
                [type |-> "answer", data |-> "sdp2"])

\* pc.onconnectionstatechange of the peer connection the page holds.
ConnectionStateChange(k, connectionState) ==
    /\ client[k].state.pc # Null
    /\ PageDispatch(k, client[k], wire,
                    IF connectionState = "connected"
                    THEN [type |-> "RTC_CONNECTED"]
                    ELSE [type |-> "RTC_FAILED",
                          reason |-> "Connection failed. Please check your network and try again."],
                    Null)

\* The timer of the error display fires: dispatch DISMISS_ERROR, then
\* errorTimeoutId = null.
ErrorTimeout(k) ==
    /\ client[k].errorTimeoutId # Null
    /\ LET e == dispatch(client[k], [c \in DOMAIN wire |-> wire[c].readyState],
                         [type |-> "DISMISS_ERROR"], Null)
       IN  /\ client' = [client EXCEPT ![k] = [PageOf(e) EXCEPT !.errorTimeoutId = Null]]
           /\ wire' = Transmit(wire, ws, e)
           /\ dispatched' = [page |-> k, action |-> [type |-> "DISMISS_ERROR"],
                             out |-> e.out, threw |-> e.threw]
           /\ sent' = << >>
           /\ UNCHANGED <<rooms, pin, ws, tvars>>

NextCall ==
    \/ \E c \in Conns :
          \/ ServerOpen(c)
          \/ ServerMessage(c)
          \/ ServerClose(c)
          \/ Drop(c)
          \/ SocketEvent(c)
    \/ \E k \in CallPages :
          \/ \E text \in FormInputs : SubmitForm(k, text)
          \/ ClickHangup(k)
          \/ \E ok \in BOOLEAN : MediaSettled(k, ok)
          \/ \E s \in Conns : OfferSettled(k, s)
          \/ \E s \in Conns : AnswerSettled(k, s)
          \/ \E cs \in {"connected", "failed"} : ConnectionStateChange(k, cs)
          \/ ErrorTimeout(k)

SpecCall == InitCall /\ [][NextCall]_vars

\* ------------------------------------------------------------------ claims
\* The well-formed access codes among the inputs, listed independently of
\* validatePin.
ValidPins == {PinA, PinB}

\* Frames of type t delivered to x by a callback whose log is log.
CountTo(log, x, t) ==
    Cardinality({i \in 1..Len(log) : log[i].to = x /\ log[i].frame.type = t})

Sent(to, t, d) == [to |-> to, frame |-> Frame(t, d)]

\* a is seated alone in the room of p and connected, and c is another
\* connection.
FirstSeated(a, c, p) ==
    /\ HasRoom(rooms, p)
    /\ rooms[p].clients = <<a>>
    /\ a # c
    /\ ws[a] = "open"

\* Positions of the frames of type t in a log.
Places(log, t) == {i \in 1..Len(log) : log[i].frame.type = t}

\* C1 (glare invariant): when a connection c joins a code in whose session
\* another connection a is seated first, exactly one peer-joined is sent, to
\* a, and none to the joiner c; and whenever a callback sends peer-joined it
\* sends one only, it is the join of a connection c seated second, and the
\* frame goes to the first-seated occupant, not to c.
C1_GlareInvariant ==
    [][ /\ \A a \in Conns, p \in ValidPins :
              (HasRoom(rooms, p) /\ rooms[p].clients = <<a>> /\ ws[a] = "open") =>
                 \A c \in Conns \ {a} :
                    JoinPin(c, p) =>
                      /\ rooms'[p].clients = <<a, c>>
                      /\ CountTo(sent', a, "peer-joined") = 1
                      /\ \A x \in Conns \ {a} : CountTo(sent', x, "peer-joined") = 0
        /\ Places(sent', "peer-joined") # {} =>
              /\ Cardinality(Places(sent', "peer-joined")) = 1
              /\ \E c \in Conns, p \in ValidPins :
                    /\ JoinPin(c, p)
                    /\ Len(rooms'[p].clients) = 2
                    /\ rooms'[p].clients[2] = c
                    /\ rooms'[p].clients[1] # c
                    /\ CountTo(sent', rooms'[p].clients[1], "peer-joined") = 1
      ]_vars

\* C1 witness: c2 joined the code in which c1 was seated; c2 got the
\* configuration and c1 the one peer-joined.
C1_Witness ==
    /\ HasRoom(rooms, PinA)
    /\ rooms[PinA].clients = <<"c1", "c2">>
    /\ sent = << Sent("c2", "join-pin", "iceServers"), Sent("c1", "peer-joined", "none") >>

\* C3: every session in the registry holds at most 2 occupants.
C3_AtMostTwoOccupants ==
    \A p \in DOMAIN rooms : Len(rooms[p].clients) <= 2

\* C3 witness: a third connection asked to join a session that holds two
\* and was rejected.
C3_Witness ==
    /\ HasRoom(rooms, PinA)
    /\ Len(rooms[PinA].clients) = 2
    /\ \E c \in Conns :
          /\ \A i \in 1..2 : rooms[PinA].clients[i] # c
          /\ sent = << Sent(c, "error", "RoomFullError"), Sent(c, "close", "1008") >>

\* C4: addClientToRoom on a room with 2 clients returns false and changes
\* neither the room nor the registry; on a room with fewer it returns true
\* and appends the client at the end (checked on every reachable room, and
\* on the effect of every join-pin with a well-formed code).
C4_AddOccupant ==
    [][ /\ rooms' # rooms =>
              \A p \in DOMAIN rooms', c \in Conns :
                 LET r == addClientToRoom(rooms'[p], c)
                 IN  IF Len(rooms'[p].clients) = 2
                     THEN r.ok = FALSE /\ r.room = rooms'[p]
                     ELSE /\ r.ok = TRUE
                          /\ r.room.clients = rooms'[p].clients \o <<c>>
                          /\ r.room.pin = rooms'[p].pin
        /\ \A c \in Conns, p \in ValidPins :
              (ws[c] = "open" /\ pin'[c] = p /\ JoinPin(c, p)) =>
                IF HasRoom(rooms, p) /\ Len(rooms[p].clients) = 2
                THEN rooms' = rooms
                ELSE /\ DOMAIN rooms' = DOMAIN rooms \cup {p}
                     /\ rooms'[p].clients =
                          (IF HasRoom(rooms, p) THEN rooms[p].clients ELSE << >>) \o <<c>>
                     /\ \A q \in DOMAIN rooms \ {p} : rooms'[q] = rooms[q]
      ]_vars

\* C4 witness: a join was refused by a full room, which is as it was, after
\* an earlier join had been appended behind the first occupant.
C4_Witness ==
    /\ HasRoom(rooms, PinB)
    /\ rooms[PinB].clients = <<"c2", "c3">>
    /\ sent = << Sent("c1", "error", "RoomFullError"), Sent("c1", "close", "1008") >>

\* a and b are connected, carry the code p, and are the first and the second
\* occupant of its session.
Paired(a, b, p) ==
    /\ a # b
    /\ ws[a] = "open" /\ ws[b] = "open"
    /\ pin[a] = p /\ pin[b] = p
    /\ HasRoom(rooms, p)
    /\ rooms[p].clients = <<a, b>>

\* x is connected, carries the code p and is the only occupant of its session.
Alone(x, p) ==
    /\ ws[x] = "open"
    /\ pin[x] = p
    /\ HasRoom(rooms, p)
    /\ rooms[p].clients = <<x>>

\* C2 (teardown symmetry), as claimed: when the second occupant b departs by
\* leave or by transport close, the first occupant a is sent exactly one
\* peer-left; when a connection b closes right after its leave was answered
\* by the peer-left to the remaining occupant a, a is sent no second
\* peer-left; and a session whose last occupant departs is deleted.
C2_TeardownSymmetry ==
    [][ \A a \in Conns, b \in Conns, p \in ValidPins :
          /\ (Paired(a, b, p) /\ (Leave(b) \/ HandleClose(b))) =>
                /\ sent' = << Sent(a, "peer-left", "none") >>
                /\ rooms'[p].clients = <<a>>
          /\ ( /\ Alone(a, p) /\ a # b /\ ws[b] = "open" /\ pin[b] = p
               /\ sent = << Sent(a, "peer-left", "none") >>
               /\ HandleClose(b) ) =>
                /\ CountTo(sent', a, "peer-left") = 0
                /\ rooms' = rooms
          /\ (Alone(b, p) /\ (Leave(b) \/ HandleClose(b))) => ~HasRoom(rooms', p)
      ]_vars

\* C5, as claimed: a join for a session that holds 2 occupants, from a
\* connection c that is neither of them, sends c an error frame and closes c
\* with 1008; c is not an occupant and keeps no association with the session
\* (ws.data.pin), nobody else is sent a frame, the registry is unchanged, and
\* the close callback that follows changes no session and sends nothing.
C5_RoomFullNotHalfJoined ==
    [][ \A c \in Conns, p \in ValidPins :
          ( /\ HasRoom(rooms, p)
            /\ Len(rooms[p].clients) = 2
            /\ \A i \in 1..2 : rooms[p].clients[i] # c ) =>
             /\ JoinPin(c, p) =>
                  /\ sent' = << Sent(c, "error", "RoomFullError"), Sent(c, "close", "1008") >>
                  /\ ws'[c] = "closing"
                  /\ rooms' = rooms
                  /\ pin'[c] # p
             /\ ( /\ ws[c] = "closing"
                  /\ sent = << Sent(c, "error", "RoomFullError"), Sent(c, "close", "1008") >>
                  /\ HandleClose(c) ) =>
                  /\ rooms' = rooms
                  /\ sent' = << >>
      ]_vars

\* The codes among the inputs that are not exactly 6 digits.
MalformedPins == JoinPins \ ValidPins

\* C6: a join-pin whose code is not exactly 6 digits sends the sender an
\* error frame, then closes the connection, and leaves the registry as it
\* was (no session is created).
C6_InvalidCodeRejected ==
    [][ \A c \in Conns :
          ws[c] = "open" =>
            \A p \in MalformedPins :
              JoinPin(c, p) =>
             /\ Len(sent') = 2
             /\ sent'[1].to = c /\ sent'[1].frame.type = "error"
             /\ sent'[2] = Sent(c, "close", "1008")
             /\ ws'[c] = "closing"
             /\ rooms' = rooms
             /\ pin' = pin
      ]_vars

\* C6 witness: a join with a malformed code was answered by the error frame
\* and the closure while a session of another connection exists.
C6_Witness ==
    /\ sent = << Sent("c2", "error", "InvalidPinError"), Sent("c2", "close", "1008") >>
    /\ ws["c2"] = "closing"
    /\ DOMAIN rooms = {PinA}
    /\ rooms[PinA].clients = <<"c1">>

\* C7: getOrCreateRoom is idempotent: on every reachable registry and every
\* well-formed code, a second call returns the room of the first and changes
\* nothing; an existing room is returned as it is; the code has exactly one
\* entry, and no other entry changes.
C7_GetOrCreateIdempotent ==
    \A p \in ValidPins :
        LET r1 == getOrCreateRoom(rooms, p)
            r2 == getOrCreateRoom(r1, p)
        IN  /\ HasRoom(r1, p)
            /\ r1[p].pin = p
            /\ r2 = r1
            /\ HasRoom(rooms, p) => r1 = rooms
            /\ ~HasRoom(rooms, p) => r1[p].clients = << >>
            /\ DOMAIN r1 = DOMAIN rooms \cup {p}
            /\ Cardinality({q \in DOMAIN r2 : r2[q].pin = p}) = 1
            /\ \A q \in DOMAIN rooms \ {p} : r1[q] = rooms[q]

\* C7 witness: two joins for the same code, no destruction in between: the
\* second found the session of the first, with its occupant.
C7_Witness ==
    /\ DOMAIN rooms = {PinB}
    /\ rooms[PinB].clients = <<"c3", "c1">>
    /\ sent = << Sent("c1", "join-pin", "iceServers"), Sent("c3", "peer-joined", "none") >>

\* C8 (session lifecycle): after every callback each session in the registry
\* has at least one occupant; a session appears only by a join for its code,
\* holding the joiner; it disappears only in the step that removes its last
\* occupant; a join for a code without a session creates one.
C8_SessionLifecycle ==
    [][ /\ \A p \in DOMAIN rooms' : Len(rooms'[p].clients) >= 1
        /\ \A p \in DOMAIN rooms' \ DOMAIN rooms :
              \E c \in Conns : JoinPin(c, p) /\ rooms'[p].clients = <<c>>
        /\ \A p \in DOMAIN rooms \ DOMAIN rooms' :
              \E c \in Conns :
                 /\ Leave(c) \/ HandleClose(c)
                 /\ pin[c] = p
                 /\ rooms[p].clients = <<c>>
        /\ \A c \in Conns, p \in ValidPins :
              (ws[c] = "open" /\ ~HasRoom(rooms, p) /\ JoinPin(c, p)) => HasRoom(rooms', p)
      ]_vars

\* C8 witness: c1 joined a code and left again; its session is gone.
C8_Witness ==
    /\ DOMAIN rooms = {}
    /\ ws["c1"] = "open"
    /\ pin["c1"] = PinA
    /\ ws["c2"] = "new" /\ ws["c3"] = "new"

\* The first stage of the end-to-end scenario: a join for a code without a
\* session seats the joiner alone and sends it the configuration only.
ScenarioCreate(a, p) ==
    (~HasRoom(rooms, p) /\ ws[a] = "open" /\ JoinPin(a, p)) =>
       /\ sent' = << Sent(a, "join-pin", "iceServers") >>
       /\ rooms'[p].clients = <<a>>

\* The stages up to the first leave: a join behind a seated a sends the
\* joiner the configuration and then a the peer-joined; an offer of a reaches
\* b and an answer of b reaches a, type and data unchanged.
ScenarioToPairing(a, b, p) ==
    /\ (FirstSeated(a, b, p) /\ pin[a] = p /\ JoinPin(b, p)) =>
          /\ sent' = << Sent(b, "join-pin", "iceServers"), Sent(a, "peer-joined", "none") >>
          /\ rooms'[p].clients = <<a, b>>
    /\ Paired(a, b, p) =>
          \A d \in Payloads :
             /\ Relay(a, "offer", d) =>
                   sent' = << Sent(b, "offer", d) >> /\ rooms' = rooms
             /\ Relay(b, "answer", d) =>
                   sent' = << Sent(a, "answer", d) >> /\ rooms' = rooms

\* C9, as claimed: after the pairing and the offer/answer exchange, either
\* side sends leave, the other is sent peer-left, and the session of the
\* code no longer exists.
C9_EndToEndAsClaimed ==
    [][ \A p \in ValidPins, a \in Conns :
          /\ ScenarioCreate(a, p)
          /\ \A b \in Conns \ {a} :
                /\ ScenarioToPairing(a, b, p)
                /\ Paired(a, b, p) =>
                      /\ Leave(a) =>
                            sent' = << Sent(b, "peer-left", "none") >> /\ ~HasRoom(rooms', p)
                      /\ Leave(b) =>
                            sent' = << Sent(a, "peer-left", "none") >> /\ ~HasRoom(rooms', p)
      ]_vars

\* C9, amended: after the pairing and the offer/answer exchange, either side
\* sends leave and the other is sent peer-left and stays seated alone in the
\* session; the session no longer exists once that occupant has left or
\* closed too, and a later join for the code creates it anew (ScenarioCreate).
C9_EndToEnd ==
    [][ \A p \in ValidPins, a \in Conns :
          /\ ScenarioCreate(a, p)
          /\ \A b \in Conns \ {a} :
                /\ ScenarioToPairing(a, b, p)
                /\ Paired(a, b, p) =>
                      /\ Leave(a) =>
                            sent' = << Sent(b, "peer-left", "none") >> /\ rooms'[p].clients = <<b>>
                      /\ Leave(b) =>
                            sent' = << Sent(a, "peer-left", "none") >> /\ rooms'[p].clients = <<a>>
          /\ (Alone(a, p) /\ (Leave(a) \/ HandleClose(a))) =>
                (sent' = << >> /\ ~HasRoom(rooms', p))
      ]_vars

\* C9 witness: c1 and c2 were seated for the code and both left; c3 then
\* joined the code and sits alone in a new session.
C9_Witness ==
    /\ ws["c1"] = "open" /\ pin["c1"] = PinA
    /\ ws["c2"] = "open" /\ pin["c2"] = PinA
    /\ DOMAIN rooms = {PinA}
    /\ rooms[PinA].clients = <<"c3">>
    /\ sent = << Sent("c3", "join-pin", "iceServers") >>

\* C10: when an occupant c whose peer x is connected sends offer, answer or
\* ice-candidate, exactly one frame is delivered, to x, with the type and
\* the data of the message; nobody else is sent anything and the registry is
\* unchanged.
C10_RelayVerbatim ==
    [][ \A c \in Conns :
          (ws[c] = "open" /\ HasRoom(rooms, pin[c])) =>
             \A x \in Conns \ {c} :
                (ws[x] = "open" /\ rooms[pin[c]].clients \in {<<c, x>>, <<x, c>>}) =>
                   \A t \in RelayTypes, d \in Payloads :
                      Relay(c, t, d) =>
                        /\ sent' = << Sent(x, t, d) >>
                        /\ rooms' = rooms
                        /\ pin' = pin
                        /\ ws' = ws
      ]_vars

\* C10 witness: c1, seated second, sent an ice-candidate that was delivered to
\* its peer c2 while c3 sits in another session.
C10_Witness ==
    /\ DOMAIN rooms = {PinA, PinB}
    /\ rooms[PinA].clients = <<"c2", "c1">>
    /\ rooms[PinB].clients = <<"c3">>
    /\ ws["c3"] = "open"
    /\ sent = << Sent("c2", "ice-candidate", "sdp2") >>

\* c is not seated together with another connection in any session.
HasNoPeer(c) ==
    \A p \in DOMAIN rooms :
        (\E i \in 1..Len(rooms[p].clients) : rooms[p].clients[i] = c) =>
            \A i \in 1..Len(rooms[p].clients) : rooms[p].clients[i] = c

\* C11, as claimed: when a connection that has no peer sends offer, answer or
\* ice-candidate, no frame is sent to anyone, the connection is not closed,
\* and no part of the server state changes (nothing is kept for a later
\* peer).
C11_DropWithoutPeer ==
    [][ \A c \in Conns :
          (ws[c] = "open" /\ HasNoPeer(c)) =>
             \A t \in RelayTypes, d \in Payloads :
                Relay(c, t, d) =>
                  /\ sent' = << >>
                  /\ ws' = ws
                  /\ rooms' = rooms
                  /\ pin' = pin
      ]_vars

\* C12, as claimed: an inbound frame that is unparseable, has no type, has an
\* unknown type, or is a join-pin without a code, sends the sender an error
\* frame and then closes the connection with 1008.
C12_ValidationPolicy ==
    [][ \A c \in Conns :
          ws[c] = "open" =>
             /\ \A k \in MalformedKinds :
                   Malformed(c, k) =>
                     /\ Len(sent') = 2
                     /\ sent'[1].to = c /\ sent'[1].frame.type = "error"
                     /\ sent'[2] = Sent(c, "close", "1008")
                     /\ ws'[c] = "closing"
             /\ JoinPin(c, NoPin) =>
                     /\ sent' = << Sent(c, "error", "InvalidMessageError"),
                                   Sent(c, "close", "1008") >>
                     /\ ws'[c] = "closing"
      ]_vars

\* The number of clients of the room of p (0 without a room).
Seated(rs, p) == IF HasRoom(rs, p) THEN Len(rs[p].clients) ELSE 0

\* C13 (join linearization): every join-pin with a well-formed code acts on
\* the registry as the previous callback left it: with fewer than 2 clients
\* seated the joiner is appended behind them, so it is first-seated only if
\* nobody was seated and an earlier first-seated client stays first; with 2
\* seated it is rejected as RoomFull and the room is unchanged.  Hence of N
\* joins for a fresh code min(N, 2) are seated and one of them is first.
C13_JoinLinearization ==
    [][ \A p \in ValidPins, c \in Conns :
          (ws[c] = "open" /\ pin'[c] = p /\ JoinPin(c, p)) =>
             IF Seated(rooms, p) < 2
             THEN /\ Seated(rooms', p) = Seated(rooms, p) + 1
                  /\ rooms'[p].clients[Seated(rooms', p)] = c
                  /\ \A i \in 1..Seated(rooms, p) :
                        rooms'[p].clients[i] = rooms[p].clients[i]
                  /\ sent'[1] = Sent(c, "join-pin", "iceServers")
             ELSE /\ rooms' = rooms
                  /\ sent' = << Sent(c, "error", "RoomFullError"), Sent(c, "close", "1008") >>
      ]_vars

\* C13 witness: all three connections sent a join for the same fresh code;
\* c2 and c1 are seated in this order and c3 was rejected.
C13_Witness ==
    /\ DOMAIN rooms = {PinA}
    /\ rooms[PinA].clients = <<"c2", "c1">>
    /\ pin = [c \in Conns |-> PinA]
    /\ ws["c3"] = "closing"
    /\ sent = << Sent("c3", "error", "RoomFullError"), Sent("c3", "close", "1008") >>

\* x is another connection than y and its transport is gone.
GonePeer(y, x) == x # NoPeer /\ x # y /\ ws[x] \in {"closing", "closed"}

\* y is sent no error frame and is not closed by the step, and no session
\* other than that of the code p changes.
Isolated(y, p) ==
    /\ CountTo(sent', y, "error") = 0
    /\ CountTo(sent', y, "close") = 0
    /\ ws'[y] = ws[y]
    /\ \A q \in (DOMAIN rooms \cup DOMAIN rooms') \ {p} :
          /\ q \in DOMAIN rooms /\ q \in DOMAIN rooms'
          /\ rooms'[q] = rooms[q]

\* C18, as claimed: when the peer x of y has lost its transport, a relay, a
\* leave or a join of y whose send to x fails sends y no error frame, does
\* not close y and changes no other session.
C18_FaultIsolation ==
    [][ \A y \in Conns :
          ws[y] = "open" =>
             /\ GonePeer(y, getPeer(rooms, y, pin[y])) =>
                   \A t \in RelayTypes, d \in Payloads :
                      Relay(y, t, d) => Isolated(y, pin[y])
             /\ ( /\ HasRoom(rooms, pin[y])
                  /\ \E x \in Conns : GonePeer(y, x) /\ rooms[pin[y]].clients \in {<<x, y>>, <<y, x>>}
                  /\ Leave(y) ) => Isolated(y, pin[y])
             /\ \A p \in ValidPins :
                   ( /\ HasRoom(rooms, p)
                     /\ \E x \in Conns : GonePeer(y, x) /\ rooms[p].clients = <<x>>
                     /\ JoinPin(y, p) ) => Isolated(y, p)
      ]_vars

\* The number a sequence of decimal digits denotes.
RECURSIVE DigitsValue(_)
DigitsValue(ds) ==
    IF ds = << >> THEN 0
    ELSE 10 * DigitsValue(SubSeq(ds, 1, Len(ds) - 1))
         + (CHOOSE d \in 0..9 : DigitChar(d) = ds[Len(ds)])

\* C14 (credential issuance): at every reachable clock value and under the
\* configured secret, generateTurnCredentials(id) returns expiresAt = clock
\* second + 14400, a username made of the decimal digits of expiresAt, a
\* colon and the id, and as credential the keyed hash of that username under
\* the secret, so that recomputing the hash of the returned username gives
\* the returned credential; the result depends on the clock through its
\* whole second only; and the credentials tracked in the rooms are such
\* usernames with their expiresAt.
C14_CredentialIssuance ==
    isTurnConfigured(turnSecret) =>
       /\ \A id \in Conns :
             LET cr == generateTurnCredentials(id, nowMs, turnSecret)
                 n == Len(cr.username)
             IN  /\ cr.expiresAt = (nowMs \div 1000) + 14400
                 /\ n >= 3
                 /\ cr.username[n] = id
                 /\ cr.username[n - 1] = ":"
                 /\ \A i \in 1..(n - 2) : cr.username[i] \in Digits
                 /\ cr.username[1] # "0"
                 /\ DigitsValue(SubSeq(cr.username, 1, n - 2)) = cr.expiresAt
                 /\ cr.credential = HmacSha1Base64(turnSecret, cr.username)
                 /\ cr = generateTurnCredentials(id, (nowMs \div 1000) * 1000, turnSecret)
                 /\ DOMAIN cr = {"username", "credential", "expiresAt"}
       /\ \A p \in DOMAIN turnCredentials : \A id \in DOMAIN turnCredentials[p] :
             LET t == turnCredentials[p][id]
             IN  /\ t.expiresAt - 14400 \in {i \div 1000 : i \in Instants}
                 /\ t.expiresAt - 14400 <= nowMs \div 1000
                 /\ t.username = DecimalDigits(t.expiresAt) \o <<":", id>>

\* C14 witness: c1 joined at clock second 2 and its credentials, expiring at
\* 14402, are tracked in its room.
C14_Witness ==
    /\ HasRoom(rooms, PinA)
    /\ "c1" \in DOMAIN turnCredentials[PinA]
    /\ turnCredentials[PinA]["c1"] =
          [username |-> <<"1", "4", "4", "0", "2", ":", "c1">>, expiresAt |-> 14402]
    /\ generateTurnCredentials("c1", nowMs, turnSecret).credential =
          HmacSha1Base64("secret-one", <<"1", "4", "4", "0", "2", ":", "c1">>)

\* C15 (revocation no-op): a revokeTurnCredentials call whose expiresAt is
\* not after the clock second writes nothing to Redis, with Redis connected
\* and whatever the outcome of a write would be; and the function leaves the
\* blocklist as it is for every tracked credential that has expired.
C15_RevocationNoOp ==
    [][ /\ \A i \in 1..Len(revoked') :
              revoked'[i].expiresAt <= nowMs' \div 1000 =>
                 \A w \in written' : w.key # <<REDIS_KEY_PREFIX>> \o revoked'[i].username
        /\ \A p \in DOMAIN turnCredentials' : \A id \in DOMAIN turnCredentials'[p] :
              LET t == turnCredentials'[p][id]
              IN  t.expiresAt <= nowMs' \div 1000 =>
                     \A o \in WriteOutcomes :
                        revokeTurnCredentials(written', "open", nowMs', t.username,
                                              t.expiresAt, o) = written'
      ]_vars

\* C15 witness: with Redis connected, the credentials of c1, issued at the
\* start, were revoked at the second they expire, and nothing was written.
C15_Witness ==
    /\ redis = "open"
    /\ nowMs = StartMs + TURN_CREDENTIAL_TTL_SECONDS * 1000
    /\ Len(revoked) = 1
    /\ revoked[1].expiresAt = nowMs \div 1000
    /\ revoked[1].username = Username(revoked[1].expiresAt, "c1")
    /\ written = {}

\* The credentials tracked under the id c, in any room.
TrackedFor(tc, c) == {tc[p][c] : p \in {q \in DOMAIN tc : c \in DOMAIN tc[q]}}

\* C16, as claimed: a credential tracked for a connection stops being tracked
\* only in a step that passes it to revokeTurnCredentials, exactly once; a
\* leave or close of a seated connection revokes its tracked credentials;
\* and once a connection has closed, no credential is tracked for it.
C16_RevocationOnTeardown ==
    [][ \A c \in TurnConns :
          /\ \A t \in TrackedFor(turnCredentials, c) \ TrackedFor(turnCredentials', c) :
                Cardinality({i \in 1..Len(revoked') : revoked'[i] = t}) = 1
          /\ \A i \in 1..Len(revoked') :
                revoked'[i].username[Len(revoked'[i].username)] = c =>
                   /\ revoked'[i] \in TrackedFor(turnCredentials, c)
                   /\ \A j \in 1..Len(revoked') : revoked'[j] = revoked'[i] => j = i
          /\ ws'[c] = "closed" => TrackedFor(turnCredentials', c) = {}
      ]_vars

\* c occupies an entry of the room of its code.
SeatedInOwnRoom(c) ==
    /\ HasRoom(rooms, pin[c])
    /\ \E i \in 1..Len(rooms[pin[c]].clients) : rooms[pin[c]].clients[i] = c

\* C17 (revocation is advisory): a leave or close of a seated connection
\* that starts revocations completes the teardown in the same step whether
\* Redis is connected or not and whether the writes are stored or not: the
\* entry of the connection is removed, its credentials are no longer
\* tracked, a remaining connected peer is sent peer-left and nothing else is
\* sent, an empty room is deleted with its tracking map, and nobody is sent
\* an error frame.
C17_RevocationAdvisory ==
    [][ \A c \in TurnConns :
          (SeatedInOwnRoom(c) /\ c \in DOMAIN turnCredentials[pin[c]]
            /\ (TurnLeave(c) \/ TurnClose(c))) =>
             LET p == pin[c]
                 left == Splice(rooms[p].clients, FindIndex(rooms[p].clients, c))
             IN  /\ revoked' # << >>
                 /\ revoked'[1] = turnCredentials[p][c]
                 /\ IF left = << >>
                    THEN /\ ~HasRoom(rooms', p)
                         /\ p \notin DOMAIN turnCredentials'
                         /\ sent' = << >>
                    ELSE /\ rooms'[p].clients = left
                         /\ c \notin DOMAIN turnCredentials'[p]
                         /\ ws'[left[1]] = "open" =>
                               sent' = << Sent(left[1], "peer-left", "none") >>
                 /\ (left = << >> \/ ws'[left[1]] = "open") =>
                       \A x \in Conns : CountTo(sent', x, "error") = 0
      ]_vars

\* C17 witness: c2 left the room it shared with c1 while Redis was connected
\* and its credentials had time to live; the write was not stored, c1 was
\* sent peer-left and c2 is neither seated nor tracked.
C17_Witness ==
    /\ redis = "open"
    /\ Len(revoked) = 1
    /\ revoked[1].expiresAt > nowMs \div 1000
    /\ written = {}
    /\ HasRoom(rooms, PinB)
    /\ rooms[PinB].clients = <<"c1">>
    /\ DOMAIN turnCredentials[PinB] = {"c1"}
    /\ sent = << Sent("c1", "peer-left", "none") >>

\* The role of page k: caller or callee while it negotiates, else Null.
Role(k) ==
    IF client[k].state.screen.type = "negotiating"
    THEN client[k].state.screen.role
    ELSE Null

\* Page k has dispatched action a, PEER_JOINED or RECEIVED_OFFER, in this
\* step: from waiting-for-peer it negotiates with the role of the action and
\* the same PIN; from any other screen its state is returned as it was.
RoleTaken(k, a) ==
    LET state == client[k].state
        role == IF a.type = "PEER_JOINED" THEN "caller" ELSE "callee"
    IN  IF state.screen.type = "waiting-for-peer"
        THEN /\ reducer(state, a) =
                  [state EXCEPT !.screen = [type |-> "negotiating",
                                            pin |-> state.screen.pin,
                                            role |-> role]]
             /\ client'[k].state.screen = reducer(state, a).screen
        ELSE /\ reducer(state, a) = state
             /\ client'[k].state.screen = state.screen

\* The WebSocket of page k is seated first in the room of its PIN, or not
\* seated there at all.
FirstIfSeated(k) ==
    LET p == client[k].state.screen.pin
        s == client[k].state.ws
    IN  (HasRoom(rooms, p) /\ FindIndex(rooms[p].clients, s) # 0)
            => rooms[p].clients[1] = s

\* C19 (client roles): PEER_JOINED takes a page from waiting-for-peer to
\* negotiating as caller and RECEIVED_OFFER takes it from waiting-for-peer to
\* negotiating as callee, with the PIN kept, and from every other screen
\* either action returns the state unchanged.  With the server between them,
\* two pages that negotiate under one PIN are one caller and one callee,
\* never two callers; the caller is the page whose connection was seated
\* first; and a page that negotiates keeps its role for as long as it
\* negotiates.
C19_ClientRoles ==
    /\ [](\A j \in CallPages, k \in CallPages :
            (/\ j # k
             /\ Role(j) # Null
             /\ Role(k) # Null
             /\ client[j].state.screen.pin = client[k].state.screen.pin)
                => Role(j) # Role(k))
    /\ [](\A k \in CallPages : Role(k) = "caller" => FirstIfSeated(k))
    /\ [][\A k \in CallPages :
            /\ (/\ dispatched'.page = k
                /\ dispatched'.action.type \in {"PEER_JOINED", "RECEIVED_OFFER"})
                   => RoleTaken(k, dispatched'.action)
            /\ (Role(k) # Null /\ client'[k].state.screen.type = "negotiating")
                   => client'[k].state.screen = client[k].state.screen]_vars

\* Both pages negotiate under one PIN, the first joiner as caller and the
\* second as callee, each holding its peer connection.
C19_Witness ==
    /\ client["A"].state.screen =
          [type |-> "negotiating", pin |-> PinA, role |-> "caller"]
    /\ client["B"].state.screen =
          [type |-> "negotiating", pin |-> PinA, role |-> "callee"]
    /\ client["A"].state.pc # Null
    /\ client["B"].state.pc # Null
    /\ HasRoom(rooms, PinA)
    /\ rooms[PinA].clients = <<client["A"].state.ws, client["B"].state.ws>>

\* C20 (SUBMIT_PIN guard): a SUBMIT_PIN dispatched on the pin-entry screen
\* moves the page to connecting with the submitted PIN and changes nothing
\* else in what the reducer returns; dispatched on any other screen, the
\* reducer returns the state as it was, screen, PIN and resources, and the
\* page holds that same state after the dispatch.
C20_SubmitPinGuard ==
    [][dispatched'.action.type = "SUBMIT_PIN" =>
          LET k == dispatched'.page
              state == client[k].state
              a == dispatched'.action
          IN  IF state.screen.type = "pin-entry"
              THEN /\ reducer(state, a) =
                        [state EXCEPT !.screen = [type |-> "connecting",
                                                  pin |-> a.pin]]
                   /\ client'[k].state.screen =
                        [type |-> "connecting", pin |-> a.pin]
              ELSE /\ reducer(state, a) = state
                   /\ client'[k].state = state]_vars

\* SUBMIT_PIN with another PIN was dispatched during a call, and the page is
\* still in that call with its PIN and its resources.
C20_Witness ==
    /\ dispatched.action = [type |-> "SUBMIT_PIN", pin |-> PinB]
    /\ client[ReducerPage].state.screen.type = "call"
    /\ client[ReducerPage].state.screen.pin = PinA
    /\ client[ReducerPage].state.pc # Null
    /\ client[ReducerPage].state.ws # Null
    /\ client[ReducerPage].state.localStream # Null

\* ---------------------------------------------------------------------
\* C21  In the call screen TOGGLE_MUTE flips muted and TOGGLE_VIDEO flips
\* videoOff, each leaving the other flag, the PIN and the rest of the
\* state as they were, and the same action applied twice gives the
\* original state back; in every other screen both return the state
\* unchanged, and the page keeps it.
C21_Flipped(state, type) ==
    IF type = "TOGGLE_MUTE"
    THEN [state EXCEPT !.screen =
            [type |-> "call", pin |-> state.screen.pin,
             muted |-> ~state.screen.muted,
             videoOff |-> state.screen.videoOff]]
    ELSE [state EXCEPT !.screen =
            [type |-> "call", pin |-> state.screen.pin,
             muted |-> state.screen.muted,
             videoOff |-> ~state.screen.videoOff]]

C21_Toggles ==
    [][dispatched'.action.type \in {"TOGGLE_MUTE", "TOGGLE_VIDEO"} =>
          LET k == dispatched'.page
              state == client[k].state
              a == dispatched'.action
          IN  IF state.screen.type = "call"
              THEN /\ reducer(state, a) = C21_Flipped(state, a.type)
                   /\ reducer(reducer(state, a), a) = state
                   /\ client'[k].state = C21_Flipped(state, a.type)
              ELSE /\ reducer(state, a) = state
                   /\ client'[k].state = state]_vars

\* TOGGLE_MUTE was dispatched in a muted call whose video was off: the call
\* is unmuted, the video still off, and the tracks follow the flags.
C21_Witness ==
    /\ dispatched.action.type = "TOGGLE_MUTE"
    /\ client[dispatched.page].state.screen.type = "call"
    /\ client[dispatched.page].state.screen.videoOff
    /\ ~client[dispatched.page].state.screen.muted
    /\ ~client[dispatched.page].tracks.video
    /\ client[dispatched.page].tracks.audio

\* ---------------------------------------------------------------------
\* C22  From any screen WS_ERROR, MEDIA_ERROR and WS_CLOSED with
\* intentional = false give the error screen with canRetry = true and
\* previousScreen equal to the screen before the action; PEER_LEFT,
\* SERVER_ERROR and RTC_FAILED give the error screen with canRetry = false
\* (and no previous screen).  The message is the action's message, the
\* fixed peer-left text, or "Connection closed: " followed by the close
\* reason or, when it is empty, the description of the close code.
C22_Retryable(action) ==
    \/ action.type \in {"WS_ERROR", "MEDIA_ERROR"}
    \/ action.type = "WS_CLOSED" /\ ~action.intentional

C22_Terminal(action) ==
    action.type \in {"PEER_LEFT", "SERVER_ERROR", "RTC_FAILED"}

C22_Message(action) ==
    CASE action.type \in {"WS_ERROR", "MEDIA_ERROR", "SERVER_ERROR"} ->
            action.error
      [] action.type = "RTC_FAILED" -> action.reason
      [] action.type = "PEER_LEFT" -> "The other person left the call"
      [] action.type = "WS_CLOSED" ->
            "Connection closed: "
            \o (IF action.reason # "" THEN action.reason
                ELSE getCloseCodeDescription(action.code))

C22_ErrorScreen(state, action) ==
    IF C22_Retryable(action)
    THEN [type |-> "error", message |-> C22_Message(action),
          canRetry |-> TRUE, previousScreen |-> state.screen]
    ELSE [type |-> "error", message |-> C22_Message(action),
          canRetry |-> FALSE]

C22_ErrorClassification ==
    [][(C22_Retryable(dispatched'.action) \/ C22_Terminal(dispatched'.action))
          => LET k == dispatched'.page
                 state == client[k].state
                 a == dispatched'.action
             IN  /\ reducer(state, a) =
                        [state EXCEPT !.screen = C22_ErrorScreen(state, a)]
                 /\ client'[k].state.screen = C22_ErrorScreen(state, a)]_vars

\* An unexpected close without a reason arrived during a call: the error
\* screen is retryable, remembers the call and shows the close-code text.
C22_Witness ==
    /\ dispatched.action.type = "WS_CLOSED"
    /\ ~dispatched.action.intentional
    /\ client[dispatched.page].state.screen.type = "error"
    /\ client[dispatched.page].state.screen.canRetry
    /\ client[dispatched.page].state.screen.previousScreen.type = "call"
    /\ client[dispatched.page].state.screen.message =
          "Connection closed: Connection lost (no close frame)"

\* ---------------------------------------------------------------------
\* C23  An error that replaces a displayed error is dismissed only by its
\* own timer: every DISMISS_ERROR that removes an error screen comes from
\* the timer set for that screen, never from the timer of an earlier error.
C23_OwnTimerOnly ==
    [][dispatched'.action.type = "DISMISS_ERROR" =>
          LET k == dispatched'.page
          IN  client[k].state.screen.type = "error" =>
                 client[k].errorTimeoutId = TimerId(client[k].state.screen)]_vars

\* An error is displayed while the pending timer is the one of the error it
\* replaced.
C23_StaleTimer ==
    \E k \in DOMAIN client :
        /\ client[k].state.screen.type = "error"
        /\ client[k].state.screen.canRetry
        /\ client[k].state.screen.previousScreen.type = "error"
        /\ client[k].errorTimeoutId =
              TimerId(client[k].state.screen.previousScreen)

\* ---------------------------------------------------------------------
\* C24  An error that cannot be retried is not dismissed automatically: no
\* timer dispatches DISMISS_ERROR while an error with canRetry = false is
\* displayed, and no timer is pending for such an error.
C24_TerminalErrorStays ==
    /\ [](\A k \in DOMAIN client :
            (/\ client[k].state.screen.type = "error"
             /\ ~client[k].state.screen.canRetry)
            => client[k].errorTimeoutId = Null)
    /\ [][dispatched'.action.type = "DISMISS_ERROR" =>
            LET k == dispatched'.page
            IN  client[k].state.screen.type = "error" =>
                   client[k].state.screen.canRetry]_vars


\* ---------------------------------------------------------------------
\* C25  A join that seats the joiner c sends c exactly one frame in that
\* step, the join frame, sent with c already seated; the only other frame
\* of the step is the peer-joined to a client seated before, and it comes
\* after the join frame.
C25_JoinFrames ==
    [][ \A p \in ValidPins, c \in Conns :
          (ws[c] = "open" /\ pin'[c] = p /\ Seated(rooms, p) < 2
             /\ JoinPin(c, p)) =>
             /\ rooms'[p].clients[Seated(rooms', p)] = c
             /\ Len(sent') \in {1, 2}
             /\ sent'[1] = Sent(c, "join-pin", "iceServers")
             /\ Len(sent') = 2 =>
                   /\ sent'[2].frame = Frame("peer-joined", "none")
                   /\ sent'[2].to # c
                   /\ \E i \in 1..Seated(rooms, p) :
                         rooms[p].clients[i] = sent'[2].to
      ]_vars

\* ---------------------------------------------------------------------
\* c has joined, its leave has been processed, and it has not joined again:
\* it is open, ws.data.pin holds the code it joined with, and the session of
\* that code does not list it.
Left(c) ==
    /\ ws[c] = "open"
    /\ pin[c] # NoPin
    /\ HasRoom(rooms, pin[c]) =>
          \A i \in 1..Len(rooms[pin[c]].clients) : rooms[pin[c]].clients[i] # c

\* C26  Leave is terminal for membership: an offer, answer or ice-candidate
\* of a connection that has left is delivered to no connection.
C26_RelayAfterLeave ==
    [][ \A c \in Conns :
          Left(c) =>
             \A t \in RelayTypes, d \in Payloads :
                Relay(c, t, d) => sent' = << >>
      ]_vars

\* C26  ... and a connection that has left is never again returned as the
\* peer of an occupant.
C26_NeverPeerAfterLeave ==
    \A c \in Conns :
        Left(c) =>
           \A y \in Conns \ {c} : getPeer(rooms, y, pin[y]) # c

\* C26, as claimed.
C26_LeaveTerminal == [](C26_NeverPeerAfterLeave) /\ C26_RelayAfterLeave

\* ---------------------------------------------------------------------
\* c is connected or connecting and has sent no join-pin that was accepted
\* for seating: ws.data.pin is still the '' of the upgrade.
NeverJoined(c) == ws[c] # "closed" /\ pin[c] = NoPin

\* C27  A connection that never joined has no session: it is in no client
\* list; its offer, answer and ice-candidate are dropped (no frame, nothing
\* changes); its leave and its close leave the registry unchanged and send
\* no frame.
C27_NotListed ==
    \A c \in Conns :
        NeverJoined(c) =>
           \A p \in DOMAIN rooms :
              \A i \in 1..Len(rooms[p].clients) : rooms[p].clients[i] # c

C27_NoSessionWithoutJoin ==
    /\ [](C27_NotListed)
    /\ [][ \A c \in Conns :
             NeverJoined(c) =>
                /\ \A t \in RelayTypes, d \in Payloads :
                      Relay(c, t, d) =>
                         sent' = << >> /\ rooms' = rooms /\ ws' = ws
                /\ Leave(c) => sent' = << >> /\ rooms' = rooms /\ ws' = ws
                /\ HandleClose(c) => sent' = << >> /\ rooms' = rooms
         ]_vars

\* c3 holds no code and its close callback has run next to a session of two:
\* the session is intact and the callback sent nothing.
C27_Witness ==
    /\ ws = [c1 |-> "open", c2 |-> "open", c3 |-> "closed"]
    /\ pin = [c1 |-> PinA, c2 |-> PinA, c3 |-> NoPin]
    /\ DOMAIN rooms = {PinA}
    /\ rooms[PinA].clients = <<"c1", "c2">>
    /\ sent = << >>

\* ---------------------------------------------------------------------
\* The classes of error the handler can catch.
ErrorKinds == Critical \cup {"Error"}

\* The step ends as the catch block for an error of class kind leaves it,
\* log being the frames delivered before the error: the error frame goes to
\* the offender c, and for a critical error the closure with 1008 follows
\* it; on a transport that is gone both fail and nothing more happens.
C28_Caught(c, kind, log) ==
    IF ws[c] = "open"
    THEN IF kind \in Critical
         THEN /\ sent' = log \o << Sent(c, "error", kind),
                                   Sent(c, "close", "1008") >>
              /\ ws' = [ws EXCEPT ![c] = "closing"]
         ELSE /\ sent' = log \o << Sent(c, "error", kind) >>
              /\ ws' = ws
    ELSE sent' = log /\ ws' = ws

\* The transport of x is gone: a send to x fails.
C28_Unreachable(x) == x # NoPeer /\ ws[x] # "open"

\* C28  Whatever message arrives and whichever sends and closes fail, the
\* handler returns without raising.  When handling fails the error frame to
\* the offender is attempted first; InvalidPinError, RoomFullError and
\* InvalidMessageError are followed by the closure with 1008, other errors
\* are not; a failure of the error send or of the close is swallowed.
C28_ErrorDelivery ==
    /\ [](\A c \in Conns, kind \in ErrorKinds :
            ws[c] \in {"open", "lost"} =>
               ~CatchResult(<< >>, ws, c, kind).raised)
    /\ [][ \A c \in Conns :
             ws[c] \in {"open", "lost"} =>
                /\ \A k \in MalformedKinds :
                      Malformed(c, k) =>
                         C28_Caught(c, IF k \in {"notype", "unknowntype"}
                                       THEN "InvalidMessageError"
                                       ELSE "Error", << >>)
                /\ JoinPin(c, NoPin) =>
                      C28_Caught(c, "InvalidMessageError", << >>)
                /\ \A p \in MalformedPins \ {NoPin} :
                      JoinPin(c, p) => C28_Caught(c, "InvalidPinError", << >>)
                /\ \A p \in ValidPins \cap FaultJoinPins :
                      (pin'[c] = p /\ JoinPin(c, p)) =>
                         IF Seated(rooms, p) = 2
                         THEN C28_Caught(c, "RoomFullError", << >>)
                         ELSE IF ws[c] # "open"
                         THEN C28_Caught(c, "Error", << >>)
                         ELSE C28_Unreachable(getPeer(rooms', c, p)) =>
                                 C28_Caught(c, "Error",
                                     << Sent(c, "join-pin", "iceServers") >>)
                /\ \A t \in RelayTypes, d \in FaultPayloads :
                      (C28_Unreachable(getPeer(rooms, c, pin[c]))
                         /\ Relay(c, t, d)) =>
                         C28_Caught(c, "Error", << >>)
                /\ ( /\ Leave(c)
                     /\ HasRoom(rooms', pin[c])
                     /\ Len(rooms'[pin[c]].clients) = 1
                     /\ C28_Unreachable(rooms'[pin[c]].clients[1]) ) =>
                      C28_Caught(c, "Error", << >>)
         ]_vars

\* The offer of c2 could not be sent to its peer c1, whose transport is gone:
\* c2 was sent the error frame and stays connected.
C28_Witness ==
    /\ ws = [c1 |-> "lost", c2 |-> "open", c3 |-> "new"]
    /\ DOMAIN rooms = {PinA}
    /\ rooms[PinA].clients = <<"c1", "c2">>
    /\ sent = << Sent("c2", "error", "Error") >>

\* ---------------------------------------------------------------------
\* s2 is s1, or s1 with one client appended, or s1 with one client removed:
\* the clients common to both are in the same order.
OrderKept(s1, s2) ==
    \/ s2 = s1
    \/ \E c \in Conns : s2 = Append(s1, c)
    \/ \E i \in 1..Len(s1) : s2 = Splice(s1, i)

\* C29  The clients of a room stay in the order of their joins, so that
\* after one of two departs the other is the first-seated; and the order is
\* the only signal for the role: when a new connection joins a room whose
\* one occupant is x, exactly x is sent peer-joined, once, and the newcomer
\* is sent none, however many leaves and joins came before.
C29_JoinOrderRole ==
    [][ /\ \A p \in DOMAIN rooms \cap DOMAIN rooms' :
             OrderKept(rooms[p].clients, rooms'[p].clients)
        /\ \A p \in ValidPins, c \in Conns, x \in Conns :
             ( /\ x # c
               /\ ws[c] = "open"
               /\ HasRoom(rooms, p)
               /\ rooms[p].clients = <<x>>
               /\ pin'[c] = p
               /\ JoinPin(c, p) ) =>
                /\ rooms'[p].clients = <<x, c>>
                /\ CountTo(sent', x, "peer-joined") = 1
                /\ \A y \in Conns \ {x} : CountTo(sent', y, "peer-joined") = 0
      ]_vars

\* ---------------------------------------------------------------------
\* C30  Every entry a callback writes to the blocklist is keyed by the
\* prefix followed by the username of a credential the callback revoked,
\* and its time to live is that credential's expiry minus the current time
\* in whole seconds, at least 1 and at most the credential lifetime of
\* 14400 seconds.
C30_BlocklistEntries ==
    \A w \in written :
        /\ \E i \in 1..Len(revoked) :
              /\ w.key = <<REDIS_KEY_PREFIX>> \o revoked[i].username
              /\ w.ex = revoked[i].expiresAt - (nowMs \div 1000)
        /\ w.ex >= 1
        /\ w.ex <= 14400

\* The credentials of c1, issued a second after the start, were revoked in
\* the last second of their life: the entry written lives for 1 second.
C30_Witness ==
    /\ redis = "open"
    /\ Len(revoked) = 1
    /\ revoked[1].username = Username(revoked[1].expiresAt, "c1")
    /\ written = {[key |-> <<REDIS_KEY_PREFIX>> \o revoked[1].username,
                   ex |-> 1]}

\* ---------------------------------------------------------------------
\* The screens that carry a PIN.
PinScreens ==
    {"connecting", "acquiring-media", "waiting-for-peer", "negotiating", "call"}

\* The screen from which an action advances, and the screen it advances to.
C35_From(type) ==
    CASE type = "WS_CONNECTED" -> "connecting"
      [] type = "MEDIA_ACQUIRED" -> "acquiring-media"
      [] type = "PEER_JOINED" -> "waiting-for-peer"
      [] type = "RECEIVED_OFFER" -> "waiting-for-peer"
      [] type = "RTC_CONNECTED" -> "negotiating"

C35_To(type) ==
    CASE type = "WS_CONNECTED" -> "acquiring-media"
      [] type = "MEDIA_ACQUIRED" -> "waiting-for-peer"
      [] type = "PEER_JOINED" -> "negotiating"
      [] type = "RECEIVED_OFFER" -> "negotiating"
      [] type = "RTC_CONNECTED" -> "call"

\* C35  The PIN of the screen is that of the most recent SUBMIT_PIN accepted
\* in pin-entry: a dispatch leaves a screen with a PIN only if it is that
\* SUBMIT_PIN, with its PIN, or if the screen before carried the same PIN.
\* WS_CONNECTED, MEDIA_ACQUIRED, PEER_JOINED, RECEIVED_OFFER and
\* RTC_CONNECTED advance the screen from connecting, acquiring-media,
\* waiting-for-peer, waiting-for-peer and negotiating respectively and leave
\* every other screen as it is, and call is entered only from negotiating.
C35_PinPreserved ==
    [][dispatched'.action.type # "none" =>
          LET k == dispatched'.page
              a == dispatched'.action
              old == client[k].state.screen
              new == client'[k].state.screen
          IN  /\ new.type \in PinScreens =>
                    \/ /\ a.type = "SUBMIT_PIN"
                       /\ old.type = "pin-entry"
                       /\ new = [type |-> "connecting", pin |-> a.pin]
                    \/ old.type \in PinScreens /\ new.pin = old.pin
              /\ a.type \in {"WS_CONNECTED", "MEDIA_ACQUIRED", "PEER_JOINED",
                              "RECEIVED_OFFER", "RTC_CONNECTED"} =>
                    IF old.type = C35_From(a.type)
                    THEN new.type = C35_To(a.type) /\ new.pin = old.pin
                    ELSE new = old /\ reducer(client[k].state, a) = client[k].state
              /\ (new.type = "call" /\ old.type # "call") =>
                    a.type = "RTC_CONNECTED" /\ old.type = "negotiating"]_vars

\* A call for PinB has been entered from negotiating.
C35_Witness ==
    /\ dispatched.action.type = "RTC_CONNECTED"
    /\ client[dispatched.page].state.screen =
          [type |-> "call", pin |-> PinB, muted |-> FALSE, videoOff |-> FALSE]

\* ---------------------------------------------------------------------
\* C36  HANGUP, and WS_CLOSED with intentional = true, lead to pin-entry
\* from every screen, changing the screen only; DISMISS_ERROR leads to
\* pin-entry from the error screen and returns the state unchanged from every
\* other screen; RTC_DISCONNECTED, RECEIVED_ANSWER and RECEIVED_ICE_CANDIDATE
\* return the state unchanged in every screen.
C36_ToPinEntry(state) == [state EXCEPT !.screen = [type |-> "pin-entry"]]

Seats(c) ==
    Cardinality({<<p, i>> \in (DOMAIN rooms) \X (1..2) :
                    i <= Len(rooms[p].clients) /\ rooms[p].clients[i] = c})

\* C37  A connection occurs at most once in the client lists of all rooms:
\* it holds neither both entries of one room nor entries of two rooms.
C37_SeatedOnce == \A c \in Conns : Seats(c) <= 1

\* C38  Once the close callback of a connection has run, the connection is
\* in no client list, so that no room outlives the connections that joined
\* it.
C38_GoneAfterClose ==
    /\ \A c \in Conns : ws[c] = "closed" => Seats(c) = 0
    /\ (\A c \in Conns : ws[c] = "closed") => rooms = << >>

\* ---------------------------------------------------------------------
\* The step removes an entry of a connection other than y from a room
\* that lists y.
C39_PeerRemoved(y) ==
    \E p \in DOMAIN rooms :
        /\ \E j \in 1..Len(rooms[p].clients) : rooms[p].clients[j] = y
        /\ HasRoom(rooms', p)
        /\ \E i \in 1..Len(rooms[p].clients) :
              /\ rooms[p].clients[i] # y
              /\ rooms'[p].clients = Splice(rooms[p].clients, i)

\* C39  No spurious peer-left: a connection is sent peer-left only in a step
\* that removes another connection from the room it is seated in; the leave
\* or close of a connection that is not seated sends peer-left to nobody.
C39_NoSpuriousPeerLeft ==
    [][ \A y \in Conns :
          CountTo(sent', y, "peer-left") > 0 => C39_PeerRemoved(y) ]_vars

\* ---------------------------------------------------------------------
\* C40  Pairing notification completeness: a join that seats c behind a
\* connected first-seated client x sends x peer-joined in the same step,
\* also when the send of the join frame to c fails, so that no pair is
\* seated with neither side told to start the negotiation.
C40_PairNotified ==
    [][ \A p \in ValidPins \cap FaultJoinPins, c \in Conns, x \in Conns :
          ( /\ x # c
            /\ ws[x] = "open"
            /\ HasRoom(rooms, p)
            /\ rooms[p].clients = <<x>>
            /\ pin'[c] = p
            /\ JoinPin(c, p) ) =>
             /\ rooms'[p].clients = <<x, c>>
             /\ CountTo(sent', x, "peer-joined") = 1
      ]_vars

\* ---------------------------------------------------------------------
\* C31  When the connection to the revocation store failed at startup the
\* server runs with revocation disabled: isRevocationEnabled() is false,
\* no revoke call writes an entry, and a leave or close tears down exactly
\* as with the store: the frames and the registry are those of the plain
\* leave or close, the credentials of the connection are passed to revoke
\* and are no longer tracked, and the revocation adds no error frame.
C31_RevocationDisabled ==
    /\ [](redis = "null" =>
            /\ ~isRevocationEnabled(redis)
            /\ written = {}
            /\ \A p \in DOMAIN turnCredentials :
                  \A id \in DOMAIN turnCredentials[p] :
                     \A o \in WriteOutcomes :
                        revokeTurnCredentials({}, redis, nowMs,
                            turnCredentials[p][id].username,
                            turnCredentials[p][id].expiresAt, o) = {})
    /\ [][ redis = "null" =>
             \A c \in TurnConns :
                (TurnLeave(c) \/ TurnClose(c)) =>
                   LET r == removeClientCredentials(rooms, turnCredentials,
                                                    c, pin[c])
                       gone == [ws EXCEPT ![c] = "closed"]
                       t == removeClientFromRoom(rooms, << >>,
                               IF ws'[c] = "closed" THEN gone ELSE ws,
                               c, pin[c])
                   IN  /\ revoked' = r.calls
                       /\ turnCredentials' = r.tc
                       /\ rooms' = t.rooms
                       /\ ~t.threw => sent' = t.log
         ]_vars

\* The store could not be reached at startup; c1, holding credentials with
\* time to live, has left: its credentials were passed to revoke and nothing
\* was written.
C31_Witness ==
    /\ redis = "null"
    /\ turnSecret # NoSecret
    /\ nowMs = StartMs
    /\ Len(revoked) = 1
    /\ revoked[1].username = Username(revoked[1].expiresAt, "c1")
    /\ ws["c1"] = "open"
    /\ written = {}

\* ---------------------------------------------------------------------
\* C32: the join frame sent to a seated joiner lists one credential-free
\* STUN entry per configured STUN URL, in order, followed by TURN entries
\* if and only if a relay secret is configured; the TURN entries all carry
\* the username and credential of the one credential generated for the
\* joiner's id in this callback, which is the credential tracked under that
\* id. With no secret configured nothing is tracked, revoked or written,
\* and the join seats and notifies as it does with a secret: the joiner gets
\* the join frame and an open occupant gets peer-joined.
C32_JoinFrame ==
    /\ [](turnSecret = NoSecret =>
            /\ \A q \in DOMAIN turnCredentials : DOMAIN turnCredentials[q] = {}
            /\ revoked = << >>
            /\ written = {})
    /\ [][\A c \in TurnConns, p \in TurnJoinPins :
            (TurnJoinPin(c, p) /\ getOrCreateRoom(rooms, p)[p].clients # rooms'[p].clients) =>
               LET ice == iceServers'
                   n == Len(StunServers)
                   cr == generateTurnCredentials(c, nowMs, turnSecret)
                   before == getOrCreateRoom(rooms, p)[p].clients
               IN  /\ sent'[1] = Sent(c, "join-pin", "iceServers")
                   /\ Len(ice) >= n
                   /\ \A i \in 1..n : ice[i] = [urls |-> StunServers[i]]
                   /\ (Len(ice) > n) <=> isTurnConfigured(turnSecret)
                   /\ \A i \in (n + 1)..Len(ice) :
                         /\ DOMAIN ice[i] = {"urls", "username", "credential"}
                         /\ ice[i].username = cr.username
                         /\ ice[i].credential = cr.credential
                         /\ turnCredentials'[p][c] =
                               [username |-> ice[i].username,
                                expiresAt |-> cr.expiresAt]
                   /\ rooms'[p].clients = Append(before, c)
                   /\ \A x \in TurnConns \ {c} :
                         (before = <<x>> /\ ws[x] = "open") =>
                            sent' = << Sent(c, "join-pin", "iceServers"),
                                       Sent(x, "peer-joined", "none") >>]_vars

\* With a secret configured, c2 was seated next to c1: its join frame lists
\* the two STUN entries and four TURN entries with the credential tracked
\* under c2, and c1 was told.
C32_Witness ==
    /\ turnSecret # NoSecret
    /\ sent = << Sent("c2", "join-pin", "iceServers"), Sent("c1", "peer-joined", "none") >>
    /\ Len(iceServers) = Len(StunServers) + 4
    /\ \A i \in 1..Len(StunServers) : iceServers[i] = [urls |-> StunServers[i]]
    /\ \E p \in DOMAIN turnCredentials :
          /\ "c2" \in DOMAIN turnCredentials[p]
          /\ \A i \in (Len(StunServers) + 1)..Len(iceServers) :
                iceServers[i].username = turnCredentials[p]["c2"].username

\* ---------------------------------------------------------------------
\* C33: the credentials a room tracks are tracked under ids of clients
\* seated in that room; so when removeClientFromRoom deletes a room, the
\* map holds at most the leaver's own entry, which is revoked singly, and
\* the batch revocation of remaining entries is not taken: the calls made
\* are the leaver's own credential, if it had one, and nothing else.
C33_TrackedAreOccupants ==
    /\ [](\A p \in DOMAIN turnCredentials :
            /\ HasRoom(rooms, p)
            /\ \A x \in DOMAIN turnCredentials[p] :
                  FindIndex(rooms[p].clients, x) # 0)
    /\ [][\A c \in TurnConns :
            (/\ HasRoom(rooms, pin[c])
             /\ ~HasRoom(rooms', pin[c])
             /\ TurnLeave(c) \/ TurnClose(c)) =>
               LET tracked == turnCredentials[pin[c]]
               IN  /\ DOMAIN tracked \subseteq {c}
                   /\ MapValues([x \in DOMAIN tracked \ {c} |-> tracked[x]]) = << >>
                   /\ revoked' = IF c \in DOMAIN tracked THEN <<tracked[c]>>
                                 ELSE << >>
                   /\ pin[c] \notin DOMAIN turnCredentials']_vars

\* The last occupant of the only room left with credentials tracked: its
\* own credential was revoked, by the single call, and the room is gone.
C33_Witness ==
    /\ turnSecret # NoSecret
    /\ rooms = << >>
    /\ turnCredentials = << >>
    /\ Len(revoked) = 1
    /\ \E c \in TurnConns :
          revoked[1].username = Username(revoked[1].expiresAt, c)

\* ---------------------------------------------------------------------
\* The usernames generateTurnCredentials can return for an id, at any
\* instant of the run.
C34_Usernames(id) ==
    {generateTurnCredentials(id, t, turnSecret).username : t \in Instants}

\* C34: two connections never hold the same id, so the credential
\* usernames that can be issued for two connections are disjoint, the
\* usernames tracked for them differ, and a leave or close of one
\* connection writes no blocklist key that is the key of a username issued
\* for another connection.
C34_UniqueIds ==
    /\ [](\A a, b \in IdsConns :
            (a # b /\ clientIds[a] # NoId /\ clientIds[b] # NoId) =>
               /\ clientIds[a] # clientIds[b]
               /\ C34_Usernames(clientIds[a]) \cap C34_Usernames(clientIds[b]) = {}
               /\ \A p, q \in DOMAIN turnCredentials :
                     (/\ clientIds[a] \in DOMAIN turnCredentials[p]
                      /\ clientIds[b] \in DOMAIN turnCredentials[q]) =>
                        turnCredentials[p][clientIds[a]].username #
                           turnCredentials[q][clientIds[b]].username)
    /\ [][\A a \in IdsConns :
            (IdsLeave(a) \/ IdsClose(a)) =>
               \A w \in written', b \in IdsConns :
                  (b # a /\ clientIds[b] # NoId) =>
                     \A u \in C34_Usernames(clientIds[b]) :
                        w.key # <<REDIS_KEY_PREFIX>> \o u]_vars

\* Both connections were upgraded in the same millisecond and both hold
\* credentials; one of them then went, and the key of its username was
\* written to the blocklist while the other's credentials stay tracked.
C34_Witness ==
    /\ clientIds["c1"] # NoId
    /\ clientIds["c2"] # NoId
    /\ clientIds["c1"][Len(clientIds["c1"])] = clientIds["c2"][Len(clientIds["c2"])]
    /\ SubSeq(clientIds["c1"], 3, Len(clientIds["c1"])) =
          SubSeq(clientIds["c2"], 3, Len(clientIds["c2"]))
    /\ Len(revoked) = 1
    /\ written = {[key |-> <<REDIS_KEY_PREFIX>> \o revoked[1].username,
                   ex |-> TURN_CREDENTIAL_TTL_SECONDS]}
    /\ \E p \in DOMAIN turnCredentials, c \in IdsConns :
          /\ clientIds[c] \in DOMAIN turnCredentials[p]
          /\ turnCredentials[p][clientIds[c]].expiresAt = revoked[1].expiresAt


====
